---- MODULE Spec2Model ----
(***************************************************************************)
(* Model of hal's Agent Turn Controller (src/src/app.rs, src/src/main.rs)  *)
(* with the worker threads it spawns, the sandbox allow-lists              *)
(* (src/src/sandbox.rs) and the session store (src/src/session.rs).        *)
(*                                                                         *)
(* Conventions.                                                            *)
(*  - A Rust Option<T> is a sequence of length 0 (None) or 1 (Some(x)).    *)
(*  - A Rust String is a sequence of chunks.  A chunk is one character     *)
(*    ("h") or, for fixed literal text that no operation looks into, the   *)
(*    whole literal ("*Request aborted*").  Concatenation is \o.           *)
(*  - A filesystem path is the sequence of its components, so that         *)
(*    Path::starts_with is the prefix relation on sequences.               *)
(*  - Every method of App is an operator from a world (the record of all   *)
(*    variables) to a world, so that a method that calls another method    *)
(*    is the composition of the two operators.  Outcomes the code does not *)
(*    decide (the clock, an I/O failure) are parameters the actions choose.*)
(***************************************************************************)
EXTENDS Integers, Sequences, FiniteSets, TLC

\* ------------------------------------------------------------------ bounds
\* Model calls (worker threads running api::chat) started in one run.
MaxApiCalls == 2
\* Last second of the wall clock, which starts at 0.
MaxNow == 1
\* Informational commands (/sessions, /help, /provider, /key) entered in one run.
MaxCommands == 1
\* Characters in a line typed with file references.
MaxTyped == 6
\* Characters in a picker query.
MaxQuery == 2
\* Characters in a file that is edited, and in the text looked for.
MaxFileChars == 4
MaxOldChars == 2
\* Characters in a path given as text.
MaxPathChars == 4
\* The largest line number asked of read_file.
MaxLine == 4
\* Characters the editor may hold for one more to be typed or pasted.
MaxInput == 1
\* Characters the editor may hold for Backspace to be pressed.
MaxEdited == 3
\* Characters the editor may hold for Up to be pressed.
MaxSaved == 1
\* Characters of a line that is submitted as a message.
MaxSubmitted == 1
\* Lines submitted from the editor.
MaxEditorLines == 1
\* Lines in the input history.
MaxHistory == 2
\* Presses of Up, then of Down, when browsing the history.
MaxPresses == 3
\* The longest line given to render_inline_styles
MaxInline == 6
\* Characters by which a bash command may pass the length of a label.
MaxPastLabel == 2

\* -------------------------------------------------------- program constants
LabelMax == 40
TitleChars == 50
DenyIndex == 3
ListedSessions == 10

\* ----------------------------------------------------------------- Option
None == << >>
Some(x) == << x >>
IsSome(o) == o # << >>
Unwrap(o) == o[1]

\* What a function that can panic does: it returns a value or its thread
\* panics
Returned(result) == [panic |-> FALSE, result |-> result]
Panicked == [panic |-> TRUE, result |-> << >>]

\* ---------------------------------------------------------------- strings
Lit(s) == << s >>
Take(s, n) == SubSeq(s, 1, IF Len(s) < n THEN Len(s) ELSE n)
IsPrefix(p, s) == Len(p) <= Len(s) /\ SubSeq(s, 1, Len(p)) = p
Contains(s, t) == \E i \in 0..(Len(s) - Len(t)) : SubSeq(s, i + 1, i + Len(t)) = t

RECURSIVE TrimStart(_)
TrimStart(s) == IF s # << >> /\ s[1] = " " THEN TrimStart(Tail(s)) ELSE s
RECURSIVE TrimEnd(_)
TrimEnd(s) ==
    IF s # << >> /\ s[Len(s)] = " " THEN TrimEnd(SubSeq(s, 1, Len(s) - 1)) ELSE s
Trim(s) == TrimEnd(TrimStart(s))

\* The bytes of a character in UTF-8, for the characters used
Utf8Len(c) == IF c = "é" THEN 2 ELSE 1

\* str::len: the length in bytes
RECURSIVE ByteLen(_)
ByteLen(s) == IF s = << >> THEN 0 ELSE Utf8Len(s[1]) + ByteLen(Tail(s))

\* n times the character c
Rep(c, n) == [k \in 1..n |-> c]

\* str::is_char_boundary
IsCharBoundary(s, b) == \E k \in 0..Len(s) : ByteLen(SubSeq(s, 1, k)) = b

\* The number of characters of s before the byte offset b, a boundary
CharsBefore(s, b) == CHOOSE k \in 0..Len(s) : ByteLen(SubSeq(s, 1, k)) = b

\* format!("{}", n) of a number below ten
NumStr(n) == << "0", "1", "2", "3", "4", "5", "6", "7", "8", "9" >>[n + 1]

\* ------------------------------------------------------------- AppState
Idle == [tag |-> "Idle"]
Thinking == [tag |-> "Thinking"]
ToolCall(label) == [tag |-> "ToolCall", label |-> label]

\* -------------------------------------------------------------- literals
AbortedText == Lit("*Request aborted*")
SystemPrompt == Lit("You are a coding agent with file access.")
Home == << "/", "home" >>

VARIABLES
    messages,               \* App.messages: the UI journal
    api_messages,           \* App.api_messages: the wire journal
    state,                  \* App.state
    error,                  \* App.error
    token_usage,            \* App.token_usage
    permission_modal,       \* App.permission_modal
    temp_allowed_paths,     \* App.temp_allowed_paths
    pending_response,       \* App.pending_response: Option of a worker's channel
    pending_tool_calls,     \* App.pending_tool_calls
    pending_tool_execution, \* App.pending_tool_execution: Option of a worker's channel
    session,                \* App.session
    cancel_flag,            \* App.cancel_flag (shared with the model workers)
    should_quit,            \* App.should_quit
    workers,                \* the spawned threads, each with its channel
    global_file,            \* <config>/hal/sandbox.json: allowed_paths
    project_file,           \* ./.hal/sandbox.json: allowed_paths
    disk,                   \* <config>/hal/sessions/<id>.json, by id
    now,                    \* last value read from the wall clock
    next_call_id,           \* the remote model's next tool_call id
    config,                 \* App.config
    provider,               \* App.provider
    api_key,                \* App.api_key
    config_file,            \* <config>/hal/config.json
    aborted,                \* history: workers whose receiver abort_request dropped
    commands_entered,       \* history: informational commands handled so far
    editor,                 \* App.input, input_cursor, history, history_pos,
                            \* saved_input, picker_mode, picker_query,
                            \* picker_results, picker_selected, files_cache;
                            \* panicked: whether the main thread has panicked
    environ,                \* std::env: CARGO_HOME, RUSTUP_HOME, NVM_DIR, GOPATH
    fn_args,                \* the arguments of the function call under check
    fn_result               \* Option of what that call returned

vars == << messages, api_messages, state, error, token_usage, permission_modal,
           temp_allowed_paths, pending_response, pending_tool_calls,
           pending_tool_execution, session, cancel_flag, should_quit, workers,
           global_file, project_file, disk, now, next_call_id, config, provider,
           api_key, config_file, aborted, commands_entered, editor, environ,
           environ, fn_args, fn_result >>

World ==
    [ messages |-> messages, api_messages |-> api_messages, state |-> state,
      error |-> error, token_usage |-> token_usage,
      permission_modal |-> permission_modal,
      temp_allowed_paths |-> temp_allowed_paths,
      pending_response |-> pending_response,
      pending_tool_calls |-> pending_tool_calls,
      pending_tool_execution |-> pending_tool_execution,
      session |-> session, cancel_flag |-> cancel_flag,
      should_quit |-> should_quit, workers |-> workers,
      global_file |-> global_file, project_file |-> project_file,
      disk |-> disk, now |-> now, next_call_id |-> next_call_id,
      config |-> config, provider |-> provider, api_key |-> api_key,
      config_file |-> config_file, aborted |-> aborted,
      commands_entered |-> commands_entered, editor |-> editor,
      fn_args |-> fn_args,
      fn_result |-> fn_result ]

Becomes(w) ==
    /\ messages' = w.messages
    /\ api_messages' = w.api_messages
    /\ state' = w.state
    /\ error' = w.error
    /\ token_usage' = w.token_usage
    /\ permission_modal' = w.permission_modal
    /\ temp_allowed_paths' = w.temp_allowed_paths
    /\ pending_response' = w.pending_response
    /\ pending_tool_calls' = w.pending_tool_calls
    /\ pending_tool_execution' = w.pending_tool_execution
    /\ session' = w.session
    /\ cancel_flag' = w.cancel_flag
    /\ should_quit' = w.should_quit
    /\ workers' = w.workers
    /\ global_file' = w.global_file
    /\ project_file' = w.project_file
    /\ disk' = w.disk
    /\ now' = w.now
    /\ next_call_id' = w.next_call_id
    /\ config' = w.config
    /\ provider' = w.provider
    /\ api_key' = w.api_key
    /\ config_file' = w.config_file
    /\ aborted' = w.aborted
    /\ commands_entered' = w.commands_entered
    /\ editor' = w.editor
    /\ fn_args' = w.fn_args
    /\ fn_result' = w.fn_result
    /\ environ' = environ


\* ======================================================== sandbox.rs
\* Commands the remote model may ask bash to run, as character sequences.
cmd_go_build == << "g","o"," ","b","u","i","l","d" >>
cmd_cargo_build == << "c","a","r","g","o"," ","b","u","i","l","d" >>
cmd_false == << "f","a","l","s","e" >>

\* Environment variables consulted by the heuristics (std::env::var), each an
\* Option of a path; a freshly configured environment sets none of them
Environ_unset ==
    [CARGO_HOME |-> None, RUSTUP_HOME |-> None, NVM_DIR |-> None, GOPATH |-> None]

env_CARGO_HOME == environ.CARGO_HOME
env_RUSTUP_HOME == environ.RUSTUP_HOME
env_NVM_DIR == environ.NVM_DIR
env_GOPATH == environ.GOPATH

PathRequest(path, reason) == [path |-> path, reason |-> reason]

\* sandbox::detect_required_paths
detect_required_paths(command) ==
    (IF \/ Contains(command, << "c","a","r","g","o" >>)
        \/ Contains(command, << "r","u","s","t","c" >>)
        \/ Contains(command, << "r","u","s","t","u","p" >>)
     THEN << PathRequest(IF IsSome(env_CARGO_HOME) THEN Unwrap(env_CARGO_HOME)
                         ELSE Home \o << ".cargo" >>,
                         "Cargo needs access to ~/.cargo for toolchain and crates"),
             PathRequest(IF IsSome(env_RUSTUP_HOME) THEN Unwrap(env_RUSTUP_HOME)
                         ELSE Home \o << ".rustup" >>,
                         "Rust needs access to ~/.rustup for toolchain") >>
     ELSE << >>)
    \o
    (IF \/ Contains(command, << "n","p","m" >>)
        \/ Contains(command, << "y","a","r","n" >>)
        \/ Contains(command, << "p","n","p","m" >>)
        \/ Contains(command, << "n","o","d","e" >>)
        \/ Contains(command, << "n","p","x" >>)
     THEN << PathRequest(Home \o << ".npm" >>, "npm needs access to ~/.npm for cache"),
             PathRequest(Home \o << ".node" >>, "Node needs access to ~/.node"),
             IF IsSome(env_NVM_DIR)
             THEN PathRequest(Unwrap(env_NVM_DIR), "Node version manager directory")
             ELSE PathRequest(Home \o << ".nvm" >>, "nvm needs access to ~/.nvm") >>
     ELSE << >>)
    \o
    (IF \/ IsPrefix(<< "g","o"," " >>, command)
        \/ Contains(command, << " ","g","o"," " >>)
     THEN << PathRequest(IF IsSome(env_GOPATH) THEN Unwrap(env_GOPATH)
                         ELSE Home \o << "go" >>,
                         "Go needs access to GOPATH") >>
     ELSE << >>)
    \o
    (IF \/ Contains(command, << "p","y","t","h","o","n" >>)
        \/ Contains(command, << "p","i","p" >>)
        \/ Contains(command, << "p","o","e","t","r","y" >>)
        \/ Contains(command, << "u","v" >>)
     THEN << PathRequest(Home \o << ".local" >>, "Python tools often install to ~/.local"),
             PathRequest(Home \o << ".cache", "pip" >>, "pip cache directory"),
             PathRequest(Home \o << ".cache", "uv" >>, "uv cache directory") >>
     ELSE << >>)
    \o
    (IF Contains(command, << "b","r","e","w" >>)
     THEN << PathRequest(<< "/", "opt", "homebrew" >>, "Homebrew installation directory"),
             PathRequest(<< "/", "usr", "local" >>,
                         "Homebrew installation directory (Intel Mac)") >>
     ELSE << >>)
    \o
    (IF Contains(command, << "g","i","t" >>)
     THEN << PathRequest(Home \o << ".gitconfig" >>, "Git configuration file"),
             PathRequest(Home \o << ".ssh" >>, "SSH keys for git authentication") >>
     ELSE << >>)

\* SandboxConfig::load_merged: a HashSet of both files' entries
load_merged(w) ==
    {w.global_file[i] : i \in 1..Len(w.global_file)}
        \cup {w.project_file[i] : i \in 1..Len(w.project_file)}

\* sandbox::expand_path: "~/rest" becomes home.join(rest)
expand_path(path) ==
    IF Len(path) > 1 /\ path[1] = "~" THEN Home \o Tail(path) ELSE path

InSeq(x, s) == \E i \in 1..Len(s) : s[i] = x

\* SandboxConfig::add_path_global; io_ok: whether save_global succeeds
add_path_global(w, path, io_ok) ==
    LET expanded == expand_path(path)
        sandbox_config == IF InSeq(expanded, w.global_file) THEN w.global_file
                  ELSE Append(w.global_file, expanded)
    IN IF io_ok THEN [w EXCEPT !.global_file = sandbox_config] ELSE w

\* SandboxConfig::add_path_project; io_ok: whether save_project succeeds
add_path_project(w, path, io_ok) ==
    LET expanded == expand_path(path)
        sandbox_config == IF InSeq(expanded, w.project_file) THEN w.project_file
                  ELSE Append(w.project_file, expanded)
    IN IF io_ok THEN [w EXCEPT !.project_file = sandbox_config] ELSE w

\* The closure of App::get_missing_paths_for_command: req is covered by allowed
PathCovers(req_path, allowed_path) ==
    IsPrefix(allowed_path, req_path) \/ IsPrefix(req_path, allowed_path)

\* The runs of characters of s between separators; cur is the run begun
RECURSIVE Runs(_, _)
Runs(s, cur) ==
    IF s = << >> THEN (IF cur = << >> THEN << >> ELSE << cur >>)
    ELSE IF s[1] = "/"
         THEN (IF cur = << >> THEN << >> ELSE << cur >>) \o Runs(Tail(s), << >>)
         ELSE Runs(Tail(s), Append(cur, s[1]))

\* Mutant of Components: every character is a component of its own.
Components_chars(s) == [k \in 1..Len(s) |-> << s[k] >>]

\* Path::new(s).components(), each component a text: the root is "/",
\* repeated and trailing separators vanish, and so does "." unless the path
\* begins with it
Components(s) ==
    LET root == s # << >> /\ s[1] = "/"
        runs == Runs(s, << >>)
    IN (IF root THEN << << "/" >> >> ELSE << >>)
       \o (IF ~root /\ runs # << >> /\ runs[1] = << "." >>
           THEN << << "." >> >> ELSE << >>)
       \o SelectSeq(runs, LAMBDA run : run # << "." >>)

\* The filter of App::get_missing_paths_for_command
missing_paths(w, required) ==
    LET sandbox_config == load_merged(w)
    IN SelectSeq(required,
                 LAMBDA req :
                    /\ ~ \E allowed \in sandbox_config : PathCovers(req.path, allowed)
                    /\ ~ \E i \in 1..Len(w.temp_allowed_paths) :
                            PathCovers(req.path, w.temp_allowed_paths[i]))

\* App::get_missing_paths_for_command
get_missing_paths_for_command(w, command) ==
    missing_paths(w, detect_required_paths(command))

\* App::get_all_allowed_paths (the merged list has no defined order: a set)
get_all_allowed_paths(w) ==
    load_merged(w) \cup {w.temp_allowed_paths[i] : i \in 1..Len(w.temp_allowed_paths)}

\* PermissionModal::new
PermissionModal(path, reason, tool_id) ==
    [path |-> path, reason |-> reason, selected |-> 0, pending_tool_id |-> tool_id]

\* Mutant of check_bash_permission: no modal is ever asked for.
check_bash_permission_never_asks(w, args, tool_id) == None

\* App::check_bash_permission; args is the parsed arguments object
check_bash_permission(w, args, tool_id) ==
    LET command == IF IsSome(args.command) THEN Unwrap(args.command) ELSE << >>
        missing == get_missing_paths_for_command(w, command)
    IN IF command = << >> THEN None
       ELSE IF missing # << >>
            THEN Some(PermissionModal(missing[1].path, missing[1].reason, tool_id))
            ELSE None


\* ======================================================== session.rs
\* Session::new at clock reading t; the id is the timestamp, formatted
Session_new(t) ==
    [id |-> << NumStr(t) >>, created_at |-> t, updated_at |-> t, title |-> << >>,
     messages |-> << >>, api_messages |-> << >>]

\* Mutant of JsonEscape: the text is written as it is.
JsonEscape_raw(s) == s

\* serde_json's string escapes, for the characters the journals can hold:
\* a quote, a backslash and a newline are written as a backslash and a letter
RECURSIVE JsonEscape(_)
JsonEscape(s) ==
    IF s = << >> THEN << >>
    ELSE (CASE s[1] = "\"" -> << "\\", "\"" >>
            [] s[1] = "\\" -> << "\\", "\\" >>
            [] s[1] = "\n" -> << "\\", "n" >>
            [] OTHER -> << s[1] >>) \o JsonEscape(Tail(s))

\* serde_json reading the inside of a string literal: a backslash announces
\* an escape; None when the text ends inside one or the escape is unknown
RECURSIVE JsonUnescape(_)
JsonUnescape(t) ==
    IF t = << >> THEN Some(<< >>)
    ELSE IF t[1] = "\""
    THEN None
    ELSE IF t[1] # "\\"
    THEN LET rest == JsonUnescape(Tail(t))
         IN IF IsSome(rest) THEN Some(<< t[1] >> \o Unwrap(rest)) ELSE None
    ELSE IF Len(t) < 2 \/ t[2] \notin {"\"", "\\", "n"}
    THEN None
    ELSE LET rest == JsonUnescape(SubSeq(t, 3, Len(t)))
             c == CASE t[2] = "\"" -> "\""
                    [] t[2] = "\\" -> "\\"
                    [] OTHER -> "\n"
         IN IF IsSome(rest) THEN Some(<< c >> \o Unwrap(rest)) ELSE None

\* A String serialized: the escaped text between quotes
JsonString(s) == << "\"" >> \o JsonEscape(s) \o << "\"" >>

\* A String deserialized; None when the text is no string literal
JsonParseString(t) ==
    IF Len(t) >= 2 /\ t[1] = "\"" /\ t[Len(t)] = "\""
    THEN JsonUnescape(SubSeq(t, 2, Len(t) - 1))
    ELSE None

\* Option::None serialized
JsonNull == << "null" >>

\* Option<String> serialized and deserialized
JsonOption(o) == IF IsSome(o) THEN JsonString(Unwrap(o)) ELSE JsonNull
JsonParseOption(t) ==
    IF t = JsonNull THEN Some(None)
    ELSE LET x == JsonParseString(t) IN IF IsSome(x) THEN Some(x) ELSE None

\* MessageRole serialized: #[serde(tag = "type", rename_all = "lowercase")];
\* a tool's name is one word of letters, written as it is
RoleJson(role) ==
    IF role.type = "tool"
    THEN [role EXCEPT !.path = JsonOption(@)]
    ELSE role

\* MessageRole deserialized
RoleParse(j) ==
    IF j.type = "tool"
    THEN LET path == JsonParseOption(j.path)
         IN IF IsSome(path) THEN Some([j EXCEPT !.path = Unwrap(path)]) ELSE None
    ELSE Some(j)

\* A wire message (serde_json::Value) written out: its content string is
\* escaped; the assistant's content may be null.  The tool_calls array is
\* written as it is: its strings are those of the model's batches, which
\* hold no character that JSON escapes.
ValueJson(m) ==
    IF m.role = "assistant"
    THEN [m EXCEPT !.content = JsonOption(@)]
    ELSE [m EXCEPT !.content = JsonString(@)]

\* A wire message read back
ValueParse(j) ==
    LET content == IF j.role = "assistant" THEN JsonParseOption(j.content)
                   ELSE JsonParseString(j.content)
    IN IF IsSome(content) THEN Some([j EXCEPT !.content = Unwrap(content)])
       ELSE None

\* serde_json::to_string_pretty(session)
to_string_pretty(s) ==
    [id |-> JsonString(s.id), created_at |-> s.created_at,
     updated_at |-> s.updated_at, title |-> JsonString(s.title),
     messages |-> [i \in 1..Len(s.messages) |->
                     [role |-> RoleJson(s.messages[i].role),
                      content |-> JsonString(s.messages[i].content)]],
     api_messages |-> [i \in 1..Len(s.api_messages) |->
                         ValueJson(s.api_messages[i])]]

\* serde_json::from_str::<Session>(content); None for Err
from_str(j) ==
    LET id == JsonParseString(j.id)
        title == JsonParseString(j.title)
        roles == [i \in 1..Len(j.messages) |-> RoleParse(j.messages[i].role)]
        contents == [i \in 1..Len(j.messages) |->
                       JsonParseString(j.messages[i].content)]
        values == [i \in 1..Len(j.api_messages) |-> ValueParse(j.api_messages[i])]
    IN IF /\ IsSome(id) /\ IsSome(title)
          /\ \A i \in 1..Len(j.messages) : IsSome(roles[i]) /\ IsSome(contents[i])
          /\ \A i \in 1..Len(j.api_messages) : IsSome(values[i])
       THEN Some([id |-> Unwrap(id), created_at |-> j.created_at,
                  updated_at |-> j.updated_at, title |-> Unwrap(title),
                  messages |-> [i \in 1..Len(j.messages) |->
                                  [role |-> Unwrap(roles[i]),
                                   content |-> Unwrap(contents[i])]],
                  api_messages |-> [i \in 1..Len(j.api_messages) |->
                                      Unwrap(values[i])]])
       ELSE None

\* Session::save: write <sessions_dir>/<id>.json
Session_save(disk_, s) == (s.id :> to_string_pretty(s)) @@ disk_

\* Session::load: read and parse <sessions_dir>/<id>.json
Session_load(disk_, id) ==
    IF id \in DOMAIN disk_ THEN from_str(disk_[id]) ELSE None

\* sessions.sort_by(|a, b| b.updated_at.cmp(&a.updated_at)); sessions updated
\* in the same second come in the order in which the directory lists them
RECURSIVE SortSessions(_)
SortSessions(S) ==
    IF S = {} THEN << >>
    ELSE LET first == CHOOSE a \in S : \A b \in S : a.updated_at >= b.updated_at
         IN << first >> \o SortSessions(S \ {first})

\* list_sessions
list_sessions(disk_) ==
    SortSessions({Unwrap(from_str(disk_[id])) :
                    id \in {i \in DOMAIN disk_ : IsSome(from_str(disk_[i]))}})

\* ============================================================ config.rs
name_gemini == << "g", "e", "m", "i", "n", "i" >>
name_openai == << "o", "p", "e", "n", "a", "i" >>
name_anthropic == << "a", "n", "t", "h", "r", "o", "p", "i", "c" >>

\* Provider (its base_url, which no command reads, is left out)
Provider(model, api_key_env, key) ==
    [model |-> model, api_key_env |-> api_key_env, api_key |-> key]

\* Config::default for three of its providers (mode is Coding throughout)
Config_default ==
    [default_provider |-> name_gemini,
     providers |->
        (name_gemini :> Provider("gemini-3-flash-preview", "HAL_API_KEY_GEMINI", None))
        @@ (name_openai :> Provider("gpt-4o", "HAL_API_KEY_OPENAI", None))
        @@ (name_anthropic :> Provider("claude-sonnet-4-20250514",
                                       "HAL_API_KEY_ANTHROPIC", None))]

\* std::env::var in the environment of the run, which sets two of the keys
env_var(name) ==
    IF name \in {"HAL_API_KEY_GEMINI", "HAL_API_KEY_ANTHROPIC"}
    THEN Some(<< "e" >>) ELSE None

\* Config::save of App.config; io_ok: whether the write succeeds
Config_save(w, io_ok) ==
    IF io_ok THEN [w EXCEPT !.config_file = w.config] ELSE w

\* ======================================================= the file system
\* The files of the working directory, as lines: "a" has three lines, "ab"
\* has one, nothing else exists
FileLines(path) ==
    IF path = << "a" >> THEN Some(<< "l1", "l2", "l3" >>)
    ELSE IF path = << "a", "b" >> THEN Some(<< "m1" >>)
    ELSE IF path = << "e" >> THEN Some(<< >>)
    ELSE None

\* str::join("\n")
RECURSIVE JoinLines(_)
JoinLines(ls) ==
    IF ls = << >> THEN << >>
    ELSE IF Len(ls) = 1 THEN << ls[1] >>
    ELSE << ls[1], "\n" >> \o JoinLines(Tail(ls))

\* ============================================================ app.rs
UserRole == [type |-> "user"]
AssistantRole == [type |-> "assistant"]
ToolRole(name, path) == [type |-> "tool", name |-> name, path |-> path]
ChatMessage(role, content) == [role |-> role, content |-> content]

\* The json!({...}) wire records
WireSystem(content) == [role |-> "system", content |-> content]
WireUser(content) == [role |-> "user", content |-> content]
WireAssistant(content) == [role |-> "assistant", content |-> Some(content)]
WireAssistantCalls(tool_calls) ==
    [role |-> "assistant", content |-> None, tool_calls |-> tool_calls]
WireTool(id, content) == [role |-> "tool", tool_call_id |-> id, content |-> content]

HasToolCalls(m) == "tool_calls" \in DOMAIN m

\* A thread with the sending half of its channel.
\*   st: "running"  the thread is at work, nothing sent
\*       "checked"  (model worker) api::chat returned and cancel_flag read false
\*       "sent"     the result is in the channel and the thread has ended
\*       "closed"   the thread ended and the channel holds nothing
\*       "taken"    the controller received the result
\*   rx: whether the controller still holds the receiving half
ApiWorker(payload) ==
    [kind |-> "api", st |-> "running", val |-> None, rx |-> TRUE,
     call |-> None, messages |-> payload, allowed_paths |-> {}]
ToolWorker(call, allowed) ==
    [kind |-> "tool", st |-> "running", val |-> None, rx |-> TRUE,
     call |-> Some(call), messages |-> << >>, allowed_paths |-> allowed]

\* Dropping an Option<Receiver>
DropRx(ws, opt) ==
    IF IsSome(opt) THEN [ws EXCEPT ![Unwrap(opt)].rx = FALSE] ELSE ws

\* The title App::save_session derives from the first user message
SessionTitle(content) ==
    LET t == Trim(Take(content, TitleChars))
    IN IF ByteLen(content) > TitleChars THEN t \o Lit("...") ELSE t

FirstUser(msgs) ==
    LET idx == {i \in 1..Len(msgs) : msgs[i].role = UserRole}
    IN IF idx = {} THEN None
       ELSE Some(msgs[CHOOSE i \in idx : \A j \in idx : i <= j])

\* App::save_session; t: the clock reading of chrono::Utc::now()
\* (the write of Session::save is taken to succeed; the code discards its error)
save_session(w, t) ==
    IF w.messages = << >> THEN w
    ELSE LET first_user == FirstUser(w.messages)
             s == [w.session EXCEPT
                     !.updated_at = t,
                     !.messages = w.messages,
                     !.api_messages = w.api_messages,
                     !.title = IF @ = << >> /\ IsSome(first_user)
                               THEN SessionTitle(Unwrap(first_user).content)
                               ELSE @]
         IN [w EXCEPT !.session = s, !.disk = Session_save(@, s), !.now = t]

\* Mutant of start_api_call: the receiver is not stored in pending_response.
start_api_call_loses_receiver(w) ==
    [w EXCEPT !.cancel_flag = FALSE,
              !.workers = Append(@, [ApiWorker(w.api_messages) EXCEPT !.rx = FALSE])]

\* App::start_api_call
start_api_call(w) ==
    [w EXCEPT !.cancel_flag = FALSE,
              !.pending_response = Some(Len(w.workers) + 1),
              !.workers = Append(DropRx(@, w.pending_response),
                                 ApiWorker(w.api_messages))]

\* Mutant of abort_request: the receivers are not dropped.
abort_request_keeps_receivers(w) ==
    IF w.state = Idle THEN w
    ELSE [w EXCEPT
            !.cancel_flag = TRUE,
            !.pending_tool_calls = << >>,
            !.state = Idle,
            !.messages = Append(@, ChatMessage(AssistantRole, AbortedText)),
            !.aborted = @ \cup {w.pending_response[i] : i \in 1..Len(w.pending_response)}
                          \cup {w.pending_tool_execution[i] :
                                    i \in 1..Len(w.pending_tool_execution)}]

\* Mutant of abort_request: pending_tool_calls is not cleared.
abort_request_keeps_queue(w) ==
    IF w.state = Idle THEN w
    ELSE [w EXCEPT
            !.cancel_flag = TRUE,
            !.pending_response = None,
            !.pending_tool_execution = None,
            !.state = Idle,
            !.messages = Append(@, ChatMessage(AssistantRole, AbortedText)),
            !.workers = DropRx(DropRx(@, w.pending_response),
                               w.pending_tool_execution),
            !.aborted = @ \cup {w.pending_response[i] : i \in 1..Len(w.pending_response)}
                          \cup {w.pending_tool_execution[i] :
                                    i \in 1..Len(w.pending_tool_execution)}]

\* Mutant of abort_request: the last wire message is removed, as after a
\* failed model call.
abort_request_pops_wire(w) ==
    IF w.state = Idle THEN w
    ELSE [w EXCEPT
            !.cancel_flag = TRUE,
            !.pending_response = None,
            !.pending_tool_calls = << >>,
            !.pending_tool_execution = None,
            !.state = Idle,
            !.api_messages = SubSeq(@, 1, Len(@) - 1),
            !.messages = Append(@, ChatMessage(AssistantRole, AbortedText)),
            !.workers = DropRx(DropRx(@, w.pending_response),
                               w.pending_tool_execution),
            !.aborted = @ \cup {w.pending_response[i] : i \in 1..Len(w.pending_response)}
                          \cup {w.pending_tool_execution[i] :
                                    i \in 1..Len(w.pending_tool_execution)}]

\* App::abort_request
abort_request(w) ==
    IF w.state = Idle THEN w
    ELSE [w EXCEPT
            !.cancel_flag = TRUE,
            !.pending_response = None,
            !.pending_tool_calls = << >>,
            !.pending_tool_execution = None,
            !.state = Idle,
            !.messages = Append(@, ChatMessage(AssistantRole, AbortedText)),
            !.workers = DropRx(DropRx(@, w.pending_response),
                               w.pending_tool_execution),
            !.aborted = @ \cup {w.pending_response[i] : i \in 1..Len(w.pending_response)}
                          \cup {w.pending_tool_execution[i] :
                                    i \in 1..Len(w.pending_tool_execution)}]

\* format_tool_call; args is the parsed arguments object
format_tool_call(name, args) ==
    LET path_or(d) == IF IsSome(args.path) THEN Unwrap(args.path) ELSE Lit(d)
        pattern == IF "pattern" \in DOMAIN args /\ IsSome(args.pattern)
                   THEN Unwrap(args.pattern) ELSE Lit("*")
        cmd == IF IsSome(args.command) THEN Unwrap(args.command) ELSE Lit("?")
    IN CASE name = "read_file" -> Returned(Lit("read ") \o path_or("?"))
         [] name = "write_file" -> Returned(Lit("write ") \o path_or("?"))
         [] name = "list_dir" -> Returned(Lit("ls ") \o path_or("."))
         [] name = "search_files" ->
                Returned(Lit("search ") \o pattern \o Lit(" in ") \o path_or("."))
         [] name = "bash" ->
                IF ByteLen(cmd) > LabelMax
                THEN IF IsCharBoundary(cmd, LabelMax)
                     THEN Returned(Lit("$ ")
                                     \o SubSeq(cmd, 1, CharsBefore(cmd, LabelMax))
                                     \o Lit("..."))
                     ELSE Panicked
                ELSE Returned(Lit("$ ") \o cmd)
         [] name = "view_projects" -> Returned(Lit("view projects"))
         [] name = "update_projects" -> Returned(Lit("update projects"))
         [] OTHER -> Returned(Lit(name))

\* Mutant of next_pending_tool: the last queued call is taken first.
next_pending_tool_last(w) == w.pending_tool_calls[Len(w.pending_tool_calls)]

\* App::process_pending_tools: self.pending_tool_calls.first().cloned()
next_pending_tool(w) == Head(w.pending_tool_calls)

\* App::process_pending_tools, from self.pending_tool_calls.remove(0) on: the
\* call is taken from the queue, labelled and handed to a new thread; label
\* is what format_tool_call did
execute_tool(w, call, label) ==
    IF label.panic
    THEN [w EXCEPT !.pending_tool_calls = Tail(@),
                   !.editor.panicked = TRUE]
    ELSE [w EXCEPT
            !.pending_tool_calls = Tail(@),
            !.state = ToolCall(label.result),
            !.pending_tool_execution = Some(Len(w.workers) + 1),
            !.workers = Append(@, ToolWorker(call, get_all_allowed_paths(w)))]

\* App::process_pending_tools
process_pending_tools(w) ==
    IF IsSome(w.pending_tool_execution) THEN w
    ELSE IF w.pending_tool_calls = << >>
    THEN start_api_call([w EXCEPT !.state = Thinking])
    ELSE LET call == next_pending_tool(w)
             modal == IF call.name = "bash"
                      THEN check_bash_permission(w, call.args, call.id)
                      ELSE None
         IN IF IsSome(modal)
            THEN [w EXCEPT !.permission_modal = modal]
            ELSE execute_tool(w, call, format_tool_call(call.name, call.args))

\* Mutant of handle_tool_calls: the assistant message is not put on the wire.
handle_tool_calls_unlogged(w, tool_calls) ==
    process_pending_tools([w EXCEPT !.pending_tool_calls = tool_calls])

\* App::handle_tool_calls
handle_tool_calls(w, tool_calls) ==
    process_pending_tools(
        [w EXCEPT !.api_messages = Append(@, WireAssistantCalls(tool_calls)),
                  !.pending_tool_calls = tool_calls])

\* Mutant of poll_api_response: a disconnected channel is taken for an empty one.
poll_api_response_keeps_waiting(w, t) ==
    IF w.state = Idle THEN w
    ELSE IF w.cancel_flag THEN w
    ELSE IF ~IsSome(w.pending_response) THEN w
    ELSE
      LET id == Unwrap(w.pending_response)
          wk == w.workers[id]
      IN
      IF wk.st \in {"running", "checked", "closed"} THEN w
      ELSE
        LET response == Unwrap(wk.val)
            w1 == [w EXCEPT !.pending_response = None,
                            !.workers[id] = [@ EXCEPT !.st = "taken", !.val = None,
                                                      !.rx = FALSE]]
        IN
        IF response.ok
        THEN LET resp == response.value
                 w2 == IF IsSome(resp.usage)
                       THEN [w1 EXCEPT !.token_usage = resp.usage]
                       ELSE w1
             IN IF IsSome(resp.tool_calls)
                THEN handle_tool_calls(w2, Unwrap(resp.tool_calls))
                ELSE LET content == IF IsSome(resp.content) THEN Unwrap(resp.content)
                                    ELSE << >>
                     IN save_session(
                          [w2 EXCEPT
                             !.messages = Append(@, ChatMessage(AssistantRole, content)),
                             !.api_messages = Append(@, WireAssistant(content)),
                             !.state = Idle], t)
        ELSE [w1 EXCEPT !.error = Some("API error"),
                        !.api_messages = SubSeq(@, 1, Len(@) - 1),
                        !.state = Idle]

\* App::poll_api_response; t: the clock reading save_session takes
poll_api_response(w, t) ==
    IF w.state = Idle THEN w
    ELSE IF w.cancel_flag THEN w
    ELSE IF ~IsSome(w.pending_response) THEN w
    ELSE
      LET id == Unwrap(w.pending_response)
          wk == w.workers[id]
      IN
      IF wk.st \in {"running", "checked"} THEN w
      ELSE IF wk.st = "closed"
      THEN [w EXCEPT !.error = Some("API thread crashed"),
                     !.state = Idle,
                     !.pending_response = None,
                     !.workers = DropRx(@, w.pending_response)]
      ELSE
        LET response == Unwrap(wk.val)
            w1 == [w EXCEPT !.pending_response = None,
                            !.workers[id] = [@ EXCEPT !.st = "taken", !.val = None,
                                                      !.rx = FALSE]]
        IN
        IF response.ok
        THEN LET resp == response.value
                 w2 == IF IsSome(resp.usage)
                       THEN [w1 EXCEPT !.token_usage = resp.usage]
                       ELSE w1
             IN IF IsSome(resp.tool_calls)
                THEN handle_tool_calls(w2, Unwrap(resp.tool_calls))
                ELSE LET content == IF IsSome(resp.content) THEN Unwrap(resp.content)
                                    ELSE << >>
                     IN save_session(
                          [w2 EXCEPT
                             !.messages = Append(@, ChatMessage(AssistantRole, content)),
                             !.api_messages = Append(@, WireAssistant(content)),
                             !.state = Idle], t)
        ELSE [w1 EXCEPT !.error = Some("API error"),
                        !.api_messages = SubSeq(@, 1, Len(@) - 1),
                        !.state = Idle]

\* Mutant of poll_tool_result: a disconnected channel is taken for an empty one.
poll_tool_result_keeps_waiting(w) ==
    IF ~IsSome(w.pending_tool_execution) THEN w
    ELSE
      LET id == Unwrap(w.pending_tool_execution)
          wk == w.workers[id]
      IN
      IF wk.st \in {"running", "closed"} THEN w
      ELSE
        LET tool_result == Unwrap(wk.val)
        IN process_pending_tools(
             [w EXCEPT
                !.pending_tool_execution = None,
                !.workers[id] = [@ EXCEPT !.st = "taken", !.val = None, !.rx = FALSE],
                !.messages = Append(@, ChatMessage(ToolRole(tool_result.name,
                                                            tool_result.path),
                                                   tool_result.result)),
                !.api_messages = Append(@, WireTool(tool_result.id,
                                                    tool_result.result))])

\* App::poll_tool_result
poll_tool_result(w) ==
    IF ~IsSome(w.pending_tool_execution) THEN w
    ELSE
      LET id == Unwrap(w.pending_tool_execution)
          wk == w.workers[id]
      IN
      IF wk.st = "running" THEN w
      ELSE IF wk.st = "closed"
      THEN [w EXCEPT !.pending_tool_execution = None,
                     !.error = Some("Tool execution thread crashed"),
                     !.state = Idle,
                     !.workers = DropRx(@, w.pending_tool_execution)]
      ELSE
        LET tool_result == Unwrap(wk.val)
        IN process_pending_tools(
             [w EXCEPT
                !.pending_tool_execution = None,
                !.workers[id] = [@ EXCEPT !.st = "taken", !.val = None, !.rx = FALSE],
                !.messages = Append(@, ChatMessage(ToolRole(tool_result.name,
                                                            tool_result.path),
                                                   tool_result.result)),
                !.api_messages = Append(@, WireTool(tool_result.id,
                                                    tool_result.result))])

\* App::modal_up
modal_up(w) ==
    IF IsSome(w.permission_modal) /\ Unwrap(w.permission_modal).selected > 0
    THEN [w EXCEPT !.permission_modal[1].selected = @ - 1]
    ELSE w

\* Mutant of modal_down: the selection moves down without a limit.
modal_down_past_deny(w) ==
    IF IsSome(w.permission_modal)
    THEN [w EXCEPT !.permission_modal[1].selected = @ + 1]
    ELSE w

\* App::modal_down; options has DenyIndex + 1 entries
modal_down(w) ==
    IF IsSome(w.permission_modal)
       /\ Unwrap(w.permission_modal).selected + 1 < DenyIndex + 1
    THEN [w EXCEPT !.permission_modal[1].selected = @ + 1]
    ELSE w

DeniedText(path) ==
    Lit("Permission denied: access to ") \o path \o Lit(" was not granted")

\* Mutant of deny_tool_call: the denied call is not removed from the queue.
deny_tool_call_keeps_call(w0, modal) ==
    LET result == DeniedText(modal.path)
    IN process_pending_tools(
         [w0 EXCEPT
            !.messages = Append(@, ChatMessage(ToolRole("bash", None), result)),
            !.api_messages = Append(@, WireTool(modal.pending_tool_id, result))])

\* Mutant of deny_tool_call: the denial is shown but not put on the wire.
deny_tool_call_unanswered(w0, modal) ==
    LET result == DeniedText(modal.path)
        w1 == [w0 EXCEPT
                 !.messages = Append(@, ChatMessage(ToolRole("bash", None), result)),
                 !.pending_tool_calls = IF @ # << >> THEN Tail(@) ELSE @]
    IN IF w1.pending_tool_calls = << >>
       THEN start_api_call([w1 EXCEPT !.state = Thinking])
       ELSE process_pending_tools(w1)

\* App::modal_select, the Deny arm; w0 is the App after permission_modal.take()
deny_tool_call(w0, modal) ==
    LET result == DeniedText(modal.path)
        w1 == [w0 EXCEPT
                 !.messages = Append(@, ChatMessage(ToolRole("bash", None), result)),
                 !.api_messages = Append(@, WireTool(modal.pending_tool_id, result)),
                 !.pending_tool_calls = IF @ # << >> THEN Tail(@) ELSE @]
    IN IF w1.pending_tool_calls = << >>
       THEN start_api_call([w1 EXCEPT !.state = Thinking])
       ELSE process_pending_tools(w1)

\* Mutant of modal_select: Allow once is written to the project file as well.
modal_select_once_persists(w, io_ok) ==
    IF ~IsSome(w.permission_modal) THEN w
    ELSE
      LET modal == Unwrap(w.permission_modal)
          w0 == [w EXCEPT !.permission_modal = None]
          failed(x) == IF io_ok THEN x
                       ELSE [x EXCEPT !.error = Some("Failed to save")]
      IN
      CASE modal.selected = 0 ->
             process_pending_tools(failed(add_path_project(w0, modal.path, io_ok)))
        [] modal.selected = 1 ->
             process_pending_tools(failed(add_path_global(w0, modal.path, io_ok)))
        [] modal.selected = 2 ->
             process_pending_tools(
                add_path_project(
                   [w0 EXCEPT !.temp_allowed_paths = Append(@, modal.path)],
                   modal.path, TRUE))
        [] modal.selected = DenyIndex -> deny_tool_call(w0, modal)
        [] OTHER -> w0

\* App::modal_select; io_ok: whether writing the sandbox file succeeds
modal_select(w, io_ok) ==
    IF ~IsSome(w.permission_modal) THEN w
    ELSE
      LET modal == Unwrap(w.permission_modal)
          w0 == [w EXCEPT !.permission_modal = None]
          failed(x) == IF io_ok THEN x
                       ELSE [x EXCEPT !.error = Some("Failed to save")]
      IN
      CASE modal.selected = 0 ->
             process_pending_tools(failed(add_path_project(w0, modal.path, io_ok)))
        [] modal.selected = 1 ->
             process_pending_tools(failed(add_path_global(w0, modal.path, io_ok)))
        [] modal.selected = 2 ->
             process_pending_tools(
                [w0 EXCEPT !.temp_allowed_paths = Append(@, modal.path)])
        [] modal.selected = DenyIndex -> deny_tool_call(w0, modal)
        [] OTHER -> w0

\* App::modal_cancel
modal_cancel(w, io_ok) ==
    IF IsSome(w.permission_modal)
    THEN modal_select([w EXCEPT !.permission_modal[1].selected = DenyIndex], io_ok)
    ELSE w


\* str::split_whitespace, for text whose only whitespace is the space
RECURSIVE SplitWhitespace(_)
SplitWhitespace(s) ==
    IF s = << >> THEN << >>
    ELSE IF s[1] = " " THEN SplitWhitespace(Tail(s))
    ELSE LET ends == {i \in 1..Len(s) : s[i] = " "}
             stop == IF ends = {} THEN Len(s) + 1
                     ELSE CHOOSE i \in ends : \A j \in ends : i <= j
         IN << SubSeq(s, 1, stop - 1) >>
               \o SplitWhitespace(SubSeq(s, stop, Len(s)))

\* str::replace(from, to): every occurrence of from, left to right
RECURSIVE Replace(_, _, _)
Replace(s, from, to) ==
    IF Len(s) < Len(from) THEN s
    ELSE IF IsPrefix(from, s)
    THEN to \o Replace(SubSeq(s, Len(from) + 1, Len(s)), from, to)
    ELSE << s[1] >> \o Replace(Tail(s), from, to)

\* The <file> block expand_file_refs appends for a file (content.trim() is
\* the content: the lines of FileLines have no blank at either end)
FileBlock(path_str, lines) ==
    << "\n\n<file path=\"" >> \o path_str \o << "\">\n" >>
       \o JoinLines(lines) \o << "\n</file>" >>

\* The loop of expand_file_refs over the words still to visit
RECURSIVE ExpandWords(_, _)
ExpandWords(words, acc) ==
    IF words = << >> THEN acc
    ELSE LET word == words[1]
             path_str == Tail(word)
             file == FileLines(path_str)
         IN IF word[1] = "@" /\ Len(word) > 1 /\ IsSome(file)
            THEN ExpandWords(
                   Tail(words),
                   [result |-> Replace(acc.result, word,
                                       << "'" >> \o path_str \o << "'" >>),
                    files_content |->
                       Append(acc.files_content,
                              FileBlock(path_str, Unwrap(file))),
                    files_read |->
                       Append(acc.files_read,
                              [path |-> path_str, lines |-> Len(Unwrap(file))])])
            ELSE ExpandWords(Tail(words), acc)

\* files_content.join("")
RECURSIVE Concat(_)
Concat(ss) == IF ss = << >> THEN << >> ELSE ss[1] \o Concat(Tail(ss))

\* expand_file_refs (the backquotes it puts around a path are written ')
expand_file_refs(input) ==
    LET done == ExpandWords(SplitWhitespace(input),
                            [result |-> input, files_content |-> << >>,
                             files_read |-> << >>])
    IN [text |-> done.result \o Concat(done.files_content),
        files_read |-> done.files_read]

\* The cosmetic messages submit_input shows for the files read
FileStubs(files_read) ==
    [i \in 1..Len(files_read) |->
       ChatMessage(ToolRole("read_file", Some(files_read[i].path)),
                   [k \in 1..files_read[i].lines |-> "\n"])]

\* pub const MAX_PICKER_ITEMS
MAX_PICKER_ITEMS == 10

\* char::to_lowercase, on the letters used
LowerChar(c) == IF c = "A" THEN "a" ELSE IF c = "B" THEN "b" ELSE c

\* str::to_lowercase
to_lowercase(s) == [k \in 1..Len(s) |-> LowerChar(s[k])]

\* The loop of the filter closure: the characters of the query still to be
\* found when the characters of the item are used up
RECURSIVE Unmatched(_, _)
Unmatched(item_lower, chars) ==
    IF item_lower = << >> THEN chars
    ELSE IF chars # << >> /\ chars[1] = item_lower[1]
         THEN Unmatched(Tail(item_lower), Tail(chars))
         ELSE Unmatched(Tail(item_lower), chars)

\* The filter closure of filter_items
FilterMatches(item, query_lower) ==
    IF query_lower = << >> THEN TRUE
    ELSE Unmatched(to_lowercase(item), query_lower) = << >>

\* Mutant of filter_items: the items are compared as typed.
filter_items_as_typed(items, query, max) ==
    Take(SelectSeq(items, LAMBDA item : Unmatched(item, query) = << >>), max)

\* filter_items
filter_items(items, query, max) ==
    Take(SelectSeq(items, LAMBDA item : FilterMatches(item, to_lowercase(query))),
         max)

\* load_files: the files of the working directory, in the order of the walk
load_files ==
    << << "a" >>, << "A", "b" >>, << "b", "a" >>, << "B", "a" >>,
       << "a", "b", "a" >>, << "b", "B", "A" >>, << "a", "a" >>, << "A", "b" >>,
       << "b" >>, << "a", "B", "b" >>, << "B", "A" >>, << "a", "b" >> >>

\* get_commands
get_commands ==
    << << "c", "l", "e", "a", "r" >>,
       << "s", "e", "s", "s", "i", "o", "n", "s" >>, << "l", "o", "a", "d" >>,
       << "p", "r", "o", "v", "i", "d", "e", "r" >>, << "k", "e", "y" >>,
       << "h", "e", "l", "p" >>, << "q", "u", "i", "t" >> >>

\* The editor fields of App::new
Editor_new ==
    [input |-> << >>, input_cursor |-> 0, history |-> << >>, history_pos |-> 0,
     saved_input |-> << >>, picker_mode |-> "None", picker_query |-> << >>,
     picker_results |-> << >>, picker_selected |-> 0, files_cache |-> None,
     panicked |-> FALSE]

\* A slice or an insertion at a byte offset that is no boundary panics
EditorPanic(w) == [w EXCEPT !.editor.panicked = TRUE]

\* str::rfind of a character: the position of its last occurrence, or 0
RFind(s, c) ==
    LET at == {i \in 1..Len(s) : s[i] = c}
    IN IF at = {} THEN 0 ELSE CHOOSE i \in at : \A j \in at : j <= i

\* App::deactivate_picker
deactivate_picker(w) ==
    [w EXCEPT !.editor.picker_mode = "None",
              !.editor.picker_query = << >>,
              !.editor.picker_results = << >>,
              !.editor.picker_selected = 0]

\* App::update_picker_results
update_picker_results(w) ==
    LET e == w.editor
        cache == IF IsSome(e.files_cache) THEN e.files_cache ELSE Some(load_files)
        results(items) == filter_items(items, e.picker_query, MAX_PICKER_ITEMS)
        selected(found) ==
            LET last == IF Len(found) > 0 THEN Len(found) - 1 ELSE 0
            IN IF e.picker_selected < last THEN e.picker_selected ELSE last
    IN CASE e.picker_mode = "Files" ->
              [w EXCEPT !.editor.files_cache = cache,
                        !.editor.picker_results = results(Unwrap(cache)),
                        !.editor.picker_selected = selected(results(Unwrap(cache)))]
         [] e.picker_mode = "Commands" ->
              [w EXCEPT !.editor.picker_results = results(get_commands),
                        !.editor.picker_selected = selected(results(get_commands))]
         [] OTHER -> w

\* App::activate_picker
activate_picker(w, mode) ==
    update_picker_results([w EXCEPT !.editor.picker_mode = mode,
                                    !.editor.picker_query = << >>,
                                    !.editor.picker_selected = 0])

\* The trigger character of the open picker
Trigger(mode) == IF mode = "Files" THEN "@" ELSE "/"

\* Mutant of insert_char: the trigger of the open picker is typed like any
\* other character.
insert_char_retriggers(w, c) ==
    LET e == w.editor
    IN IF ~IsCharBoundary(e.input, e.input_cursor) THEN EditorPanic(w)
       ELSE LET k == CharsBefore(e.input, e.input_cursor)
                w1 == [w EXCEPT
                         !.editor.input = SubSeq(@, 1, k) \o << c >>
                                            \o SubSeq(@, k + 1, Len(@)),
                         !.editor.input_cursor = @ + Utf8Len(c)]
            IN IF c = "@" THEN activate_picker(w1, "Files")
               ELSE IF c = "/" /\ w1.editor.input_cursor = 1
               THEN activate_picker(w1, "Commands")
               ELSE IF e.picker_mode # "None"
               THEN update_picker_results(
                      [w1 EXCEPT !.editor.picker_query = Append(@, c)])
               ELSE w1

\* App::insert_char
insert_char(w, c) ==
    LET e == w.editor
    IN IF \/ c = "@" /\ e.picker_mode = "Files"
          \/ c = "/" /\ e.picker_mode = "Commands"
       THEN w
       ELSE IF ~IsCharBoundary(e.input, e.input_cursor) THEN EditorPanic(w)
       ELSE LET k == CharsBefore(e.input, e.input_cursor)
                w1 == [w EXCEPT
                         !.editor.input = SubSeq(@, 1, k) \o << c >>
                                            \o SubSeq(@, k + 1, Len(@)),
                         !.editor.input_cursor = @ + Utf8Len(c)]
            IN IF c = "@" THEN activate_picker(w1, "Files")
               ELSE IF c = "/" /\ w1.editor.input_cursor = 1
               THEN activate_picker(w1, "Commands")
               ELSE IF e.picker_mode # "None"
               THEN update_picker_results(
                      [w1 EXCEPT !.editor.picker_query = Append(@, c)])
               ELSE w1

\* Mutant of delete_char: the cursor moves back by one byte.
delete_char_one_byte(w) ==
    LET e == w.editor
    IN IF e.input_cursor > 0
       THEN LET k == CharsBefore(e.input, e.input_cursor)
            IN [w EXCEPT !.editor.input = SubSeq(@, 1, k - 1)
                                            \o SubSeq(@, k + 1, Len(@)),
                         !.editor.input_cursor = @ - 1]
       ELSE w

\* App::delete_char
delete_char(w) ==
    LET e == w.editor
    IN IF e.input_cursor > 0
       THEN IF ~IsCharBoundary(e.input, e.input_cursor) THEN EditorPanic(w)
            ELSE LET k == CharsBefore(e.input, e.input_cursor)
                     prev_start == ByteLen(SubSeq(e.input, 1, k - 1))
                     removed == e.input[k]
                     w1 == [w EXCEPT
                              !.editor.input = SubSeq(@, 1, k - 1)
                                                 \o SubSeq(@, k + 1, Len(@)),
                              !.editor.input_cursor = prev_start]
                 IN IF e.picker_mode # "None"
                    THEN IF removed = Trigger(e.picker_mode)
                         THEN deactivate_picker(w1)
                         ELSE update_picker_results(
                                [w1 EXCEPT !.editor.picker_query =
                                    SubSeq(@, 1, Len(@) - 1)])
                    ELSE w1
       ELSE w

\* App::move_cursor_left
move_cursor_left(w) ==
    LET e == w.editor
    IN IF e.input_cursor > 0
       THEN IF ~IsCharBoundary(e.input, e.input_cursor) THEN EditorPanic(w)
            ELSE [w EXCEPT !.editor.input_cursor =
                    ByteLen(SubSeq(e.input, 1,
                                   CharsBefore(e.input, e.input_cursor) - 1))]
       ELSE w

\* App::move_cursor_right
move_cursor_right(w) ==
    LET e == w.editor
    IN IF e.input_cursor < ByteLen(e.input)
       THEN IF ~IsCharBoundary(e.input, e.input_cursor) THEN EditorPanic(w)
            ELSE LET k == CharsBefore(e.input, e.input_cursor)
                 IN [w EXCEPT !.editor.input_cursor =
                       IF Len(e.input) - k >= 2
                       THEN e.input_cursor + Utf8Len(e.input[k + 1])
                       ELSE ByteLen(e.input)]
       ELSE w

\* Mutant of history_up: the line being edited is not kept.
history_up_forgets_input(w) ==
    LET e == w.editor
    IN IF e.picker_mode # "None"
       THEN IF e.picker_selected > 0
            THEN [w EXCEPT !.editor.picker_selected = @ - 1] ELSE w
       ELSE IF e.history # << >> /\ e.history_pos > 0
       THEN [w EXCEPT
               !.editor.history_pos = @ - 1,
               !.editor.input = e.history[e.history_pos],
               !.editor.input_cursor = ByteLen(e.history[e.history_pos])]
       ELSE w

\* App::history_up
history_up(w) ==
    LET e == w.editor
    IN IF e.picker_mode # "None"
       THEN IF e.picker_selected > 0
            THEN [w EXCEPT !.editor.picker_selected = @ - 1] ELSE w
       ELSE IF e.history # << >> /\ e.history_pos > 0
       THEN [w EXCEPT
               !.editor.saved_input =
                   IF e.history_pos = Len(e.history) THEN e.input ELSE @,
               !.editor.history_pos = @ - 1,
               !.editor.input = e.history[e.history_pos],
               !.editor.input_cursor = ByteLen(e.history[e.history_pos])]
       ELSE w

\* App::history_down
history_down(w) ==
    LET e == w.editor
    IN IF e.picker_mode # "None"
       THEN IF e.picker_selected + 1 < Len(e.picker_results)
            THEN [w EXCEPT !.editor.picker_selected = @ + 1] ELSE w
       ELSE IF e.history_pos < Len(e.history)
       THEN LET text == IF e.history_pos + 1 = Len(e.history)
                        THEN e.saved_input
                        ELSE e.history[e.history_pos + 2]
            IN [w EXCEPT !.editor.history_pos = @ + 1,
                         !.editor.input = text,
                         !.editor.input_cursor = ByteLen(text)]
       ELSE w

\* App::select_picker_item
select_picker_item(w) ==
    LET e == w.editor
    IN IF e.picker_mode = "None" THEN w
       ELSE IF e.picker_selected < Len(e.picker_results)
       THEN LET item == e.picker_results[e.picker_selected + 1]
            IN IF e.picker_mode = "Files"
               THEN IF ~IsCharBoundary(e.input, e.input_cursor)
                    THEN EditorPanic(w)
                    ELSE LET k == CharsBefore(e.input, e.input_cursor)
                             at == RFind(SubSeq(e.input, 1, k), "@")
                             at_pos == ByteLen(SubSeq(e.input, 1, at - 1))
                         IN IF at > 0
                            THEN deactivate_picker(
                                   [w EXCEPT
                                      !.editor.input = SubSeq(@, 1, at - 1)
                                                         \o << "@" >> \o item,
                                      !.editor.input_cursor =
                                          at_pos + 1 + ByteLen(item)])
                            ELSE deactivate_picker(w)
               ELSE deactivate_picker(
                      [w EXCEPT !.editor.input = << "/" >> \o item,
                                !.editor.input_cursor = 1 + ByteLen(item)])
       ELSE deactivate_picker(w)

\* App::cancel_picker
cancel_picker(w) ==
    LET e == w.editor
    IN IF e.picker_mode # "None"
       THEN IF ~IsCharBoundary(e.input, e.input_cursor) THEN EditorPanic(w)
            ELSE LET k == CharsBefore(e.input, e.input_cursor)
                     at == RFind(SubSeq(e.input, 1, k), Trigger(e.picker_mode))
                 IN IF at > 0
                    THEN deactivate_picker(
                           [w EXCEPT
                              !.editor.input = SubSeq(@, 1, at - 1),
                              !.editor.input_cursor =
                                  ByteLen(SubSeq(e.input, 1, at - 1))])
                    ELSE deactivate_picker(w)
       ELSE [w EXCEPT !.editor.input = << >>, !.editor.input_cursor = 0]

\* text.replace('\n', " ").replace('\r', "")
RECURSIVE Cleaned(_)
Cleaned(text) ==
    IF text = << >> THEN << >>
    ELSE (IF text[1] = "\n" THEN << " " >>
          ELSE IF text[1] = "\r" THEN << >>
          ELSE << text[1] >>) \o Cleaned(Tail(text))

\* App::paste
paste(w, text) ==
    LET w1 == IF w.editor.picker_mode # "None" THEN deactivate_picker(w) ELSE w
        e == w1.editor
        cleaned == Cleaned(text)
    IN IF ~IsCharBoundary(e.input, e.input_cursor) THEN EditorPanic(w)
       ELSE LET k == CharsBefore(e.input, e.input_cursor)
            IN [w1 EXCEPT
                  !.editor.input = SubSeq(@, 1, k) \o cleaned
                                     \o SubSeq(@, k + 1, Len(@)),
                  !.editor.input_cursor = @ + ByteLen(cleaned)]

\* self.input.clear(); self.input_cursor = 0
ClearInput(w) == [w EXCEPT !.editor.input = << >>, !.editor.input_cursor = 0]

\* Lines the user may have typed when Enter is pressed
input_hi == << "h", "i" >>
input_clear == << "/","c","l","e","a","r" >>
input_quit == << "/","q","u","i","t" >>
Inputs == {input_hi, input_clear}

QuitCommands ==
    {input_quit, << "/","e","x","i","t" >>, << "/","q" >>}

\* Mutant of Truncate: the vector is emptied.
Truncate_drops_all(s, n) == << >>

\* Vec::truncate
Truncate(s, n) == SubSeq(s, 1, IF Len(s) < n THEN Len(s) ELSE n)

input_sessions == << "/", "s", "e", "s", "s", "i", "o", "n", "s" >>
input_help == << "/", "h", "e", "l", "p" >>
input_provider == << "/", "p", "r", "o", "v", "i", "d", "e", "r" >>
prefix_provider == << "/", "p", "r", "o", "v", "i", "d", "e", "r", " " >>
prefix_key == << "/", "k", "e", "y", " " >>
prefix_load == << "/", "l", "o", "a", "d", " " >>

HELP_TEXT == "**Commands:** ..."

\* str::strip_prefix, for a string that starts with the prefix
StripPrefix(p, s) == SubSeq(s, Len(p) + 1, Len(s))

\* [String]::join("\n")
RECURSIVE JoinStrs(_)
JoinStrs(ls) ==
    IF ls = << >> THEN << >>
    ELSE IF Len(ls) = 1 THEN ls[1]
    ELSE ls[1] \o << "\n" >> \o JoinStrs(Tail(ls))

\* DateTime::from_timestamp(t, 0) formatted "%Y-%m-%d %H:%M", in the first minute
DateStr(t) == Lit("1970-01-01 00:00")

\* the line /sessions shows for a session
SessionLine(s) ==
    Lit("**") \o s.id \o Lit("** - ")
       \o (IF s.title = << >> THEN Lit("(untitled)") ELSE s.title)
       \o Lit(" (") \o DateStr(s.updated_at) \o Lit(")")

\* names.sort() of the provider names of Config_default
SortedNames(cfg) ==
    SelectSeq(<< name_anthropic, name_gemini, name_openai >>,
              LAMBDA n : n \in DOMAIN cfg.providers)

\* the line /provider shows for a provider
ProviderLine(cfg, n) ==
    IF n = cfg.default_provider
    THEN Lit("- **") \o n \o Lit("** (active)")
    ELSE Lit("- ") \o n

\* The command arms of App::submit_input, each of which returns: Some of the
\* App after the command, or None when the trimmed input is no command.
\* t1, t2: successive clock readings; io_ok: whether a write of the
\* configuration file succeeds (a backquote in a message is written ' here)
slash_command(w, input, t1, t2, io_ok) ==
    LET say(x, content) ==
            Some([x EXCEPT
                    !.messages = Append(@, ChatMessage(AssistantRole, content))])
    IN
    IF input \in QuitCommands
    THEN Some([save_session(w, t1) EXCEPT !.should_quit = TRUE])
    ELSE IF input = input_clear
    THEN Some([save_session(w, t1) EXCEPT
                 !.messages = << >>,
                 !.api_messages = Truncate(@, 1),
                 !.token_usage = None,
                 !.session = Session_new(t2),
                 !.now = t2])
    ELSE IF input = input_sessions
    THEN LET sessions == list_sessions(w.disk)
             shown == Take(sessions, ListedSessions)
         IN IF sessions = << >>
            THEN say(w, Lit("No saved sessions."))
            ELSE say(w, Lit("**Saved sessions:**\n")
                          \o JoinStrs([i \in 1..Len(shown) |-> SessionLine(shown[i])]))
    ELSE IF input = input_help
    THEN say(w, Lit(HELP_TEXT))
    ELSE IF input = input_provider
    THEN LET names == SortedNames(w.config)
         IN say(w, Lit("**Providers:**\n")
                     \o JoinStrs([i \in 1..Len(names) |->
                                    ProviderLine(w.config, names[i])])
                     \o Lit("\n\nSwitch with '/provider <name>'"))
    ELSE IF IsPrefix(prefix_provider, input)
    THEN LET name == Trim(StripPrefix(prefix_provider, input))
         IN IF name \in DOMAIN w.config.providers
            THEN LET new_provider == w.config.providers[name]
                     key == IF IsSome(new_provider.api_key)
                            THEN new_provider.api_key
                            ELSE env_var(new_provider.api_key_env)
                 IN IF IsSome(key)
                    THEN say(Config_save(
                               [w EXCEPT !.config.default_provider = name,
                                         !.provider = new_provider,
                                         !.api_key = Unwrap(key)], io_ok),
                             Lit("Switched to **") \o name \o Lit("** (")
                                \o Lit(new_provider.model) \o Lit(")"))
                    ELSE say(w, Lit("No API key for **") \o name
                                  \o Lit("**. Set it with '/key <key>' after switching, or set $")
                                  \o Lit(new_provider.api_key_env))
            ELSE say(w, Lit("Unknown provider: ") \o name)
    ELSE IF IsPrefix(prefix_key, input)
    THEN LET key == Trim(StripPrefix(prefix_key, input))
             active == w.config.default_provider
         IN IF key = << >>
            THEN Some([w EXCEPT !.error = Some("API key cannot be empty")])
            ELSE LET w1 == [w EXCEPT !.api_key = key]
                     w2 == IF active \in DOMAIN w.config.providers
                           THEN [w1 EXCEPT
                                   !.config.providers[active].api_key = Some(key),
                                   !.provider = [w.config.providers[active]
                                                   EXCEPT !.api_key = Some(key)]]
                           ELSE w1
                 IN say(Config_save(w2, io_ok),
                        Lit("API key updated for **") \o active \o Lit("**"))
    ELSE IF IsPrefix(prefix_load, input)
    THEN LET id == Trim(StripPrefix(prefix_load, input))
             loaded == Session_load(w.disk, id)
         IN IF IsSome(loaded)
            THEN LET s == Unwrap(loaded)
                 IN Some([save_session(w, t1) EXCEPT
                       !.messages = s.messages,
                       !.api_messages =
                           Truncate(@, 1)
                             \o (IF Len(s.api_messages) > 1
                                 THEN SubSeq(s.api_messages, 2, Len(s.api_messages))
                                 ELSE << >>),
                       !.session = s,
                       !.token_usage = None])
            ELSE Some([w EXCEPT !.error = Some("Failed to load session")])
    ELSE None

\* Mutant of submit_input: /help is sent to the model like any other text.
submit_input_help_to_model(w, raw, t1, t2, io_ok) ==
    LET input == Trim(raw)
        command == IF input = input_help THEN None
                   ELSE slash_command(IF input \in QuitCommands THEN w
                                            ELSE ClearInput(w),
                                            input, t1, t2, io_ok)
    IN
    IF input = << >> THEN w
    ELSE IF IsSome(command)
    THEN Unwrap(command)
    ELSE LET expanded == expand_file_refs(input)
             history == IF w.editor.history # << >>
                           /\ w.editor.history[Len(w.editor.history)] = input
                        THEN w.editor.history
                        ELSE Append(w.editor.history, input)
         IN start_api_call(
              ClearInput(
                [w EXCEPT !.editor.history = history,
                          !.editor.history_pos = Len(history),
                          !.messages = Append(@, ChatMessage(UserRole, input))
                                         \o FileStubs(expanded.files_read),
                          !.api_messages = Append(@, WireUser(expanded.text)),
                          !.state = Thinking]))

\* App::submit_input; raw: App.input
submit_input(w, raw, t1, t2, io_ok) ==
    LET input == Trim(raw)
        command == slash_command(IF input \in QuitCommands THEN w ELSE ClearInput(w),
                                 input, t1, t2, io_ok)
    IN
    IF input = << >> THEN w
    ELSE IF IsSome(command)
    THEN Unwrap(command)
    ELSE LET expanded == expand_file_refs(input)
             history == IF w.editor.history # << >>
                           /\ w.editor.history[Len(w.editor.history)] = input
                        THEN w.editor.history
                        ELSE Append(w.editor.history, input)
         IN start_api_call(
              ClearInput(
                [w EXCEPT !.editor.history = history,
                          !.editor.history_pos = Len(history),
                          !.messages = Append(@, ChatMessage(UserRole, input))
                                         \o FileStubs(expanded.files_read),
                          !.api_messages = Append(@, WireUser(expanded.text)),
                          !.state = Thinking]))

\* ============================================================ main.rs
Keys == {"CtrlC", "Up", "Down", "Enter", "Esc", "Other"}

\* The keys of the editor; a character key is the character itself
EditorKeys == {"Tab", "Backspace", "Left", "Right"}
Chars == {"@", "/", "a", "é"}

\* Mutant of handle_key: Esc while processing is ignored.
handle_key_ignores_esc(w, key, raw, t1, t2, io_ok) ==
    IF key = "CtrlC" THEN [w EXCEPT !.should_quit = TRUE]
    ELSE IF IsSome(w.permission_modal)
    THEN CASE key = "Up" -> modal_up(w)
           [] key = "Down" -> modal_down(w)
           [] key = "Enter" -> modal_select(w, io_ok)
           [] key = "Esc" -> modal_cancel(w, io_ok)
           [] OTHER -> w
    ELSE CASE key = "Enter" ->
                IF w.state # Idle THEN w
                ELSE IF w.editor.picker_mode # "None" THEN select_picker_item(w)
                ELSE submit_input(w, raw, t1, t2, io_ok)
           [] key = "Tab" ->
                IF w.editor.picker_mode # "None" THEN select_picker_item(w) ELSE w
           [] key = "Esc" -> IF w.state # Idle THEN w ELSE cancel_picker(w)
           [] key = "Backspace" -> delete_char(w)
           [] key = "Up" -> history_up(w)
           [] key = "Down" -> history_down(w)
           [] key = "Left" -> move_cursor_left(w)
           [] key = "Right" -> move_cursor_right(w)
           [] key \in Chars -> insert_char(w, key)
           [] OTHER -> w

\* Mutant of handle_key: Enter submits also while a turn is in progress.
handle_key_enter_while_busy(w, key, raw, t1, t2, io_ok) ==
    IF key = "CtrlC" THEN [w EXCEPT !.should_quit = TRUE]
    ELSE IF IsSome(w.permission_modal)
    THEN CASE key = "Up" -> modal_up(w)
           [] key = "Down" -> modal_down(w)
           [] key = "Enter" -> modal_select(w, io_ok)
           [] key = "Esc" -> modal_cancel(w, io_ok)
           [] OTHER -> w
    ELSE LET is_processing == w.state # Idle
         IN CASE key = "Enter" ->
                    IF w.editor.picker_mode # "None"
                    THEN select_picker_item(w)
                    ELSE submit_input(w, raw, t1, t2, io_ok)
              [] key = "Tab" ->
                    IF w.editor.picker_mode # "None"
                    THEN select_picker_item(w) ELSE w
              [] key = "Esc" ->
                    IF is_processing THEN abort_request(w) ELSE cancel_picker(w)
              [] key = "Backspace" -> delete_char(w)
              [] key = "Up" -> history_up(w)
              [] key = "Down" -> history_down(w)
              [] key = "Left" -> move_cursor_left(w)
              [] key = "Right" -> move_cursor_right(w)
              [] key \in Chars -> insert_char(w, key)
              [] OTHER -> w

\* handle_key, for a key of Keys, EditorKeys or Chars; raw: App.input when
\* the key is read; the scroll offset, which the remaining keys act on, is
\* outside this model
handle_key(w, key, raw, t1, t2, io_ok) ==
    IF key = "CtrlC" THEN [w EXCEPT !.should_quit = TRUE]
    ELSE IF IsSome(w.permission_modal)
    THEN CASE key = "Up" -> modal_up(w)
           [] key = "Down" -> modal_down(w)
           [] key = "Enter" -> modal_select(w, io_ok)
           [] key = "Esc" -> modal_cancel(w, io_ok)
           [] OTHER -> w
    ELSE LET is_processing == w.state # Idle
         IN CASE key = "Enter" ->
                    IF is_processing THEN w
                    ELSE IF w.editor.picker_mode # "None"
                    THEN select_picker_item(w)
                    ELSE submit_input(w, raw, t1, t2, io_ok)
              [] key = "Tab" ->
                    IF w.editor.picker_mode # "None"
                    THEN select_picker_item(w) ELSE w
              [] key = "Esc" ->
                    IF is_processing THEN abort_request(w) ELSE cancel_picker(w)
              [] key = "Backspace" -> delete_char(w)
              [] key = "Up" -> history_up(w)
              [] key = "Down" -> history_down(w)
              [] key = "Left" -> move_cursor_left(w)
              [] key = "Right" -> move_cursor_right(w)
              [] key \in Chars -> insert_char(w, key)
              [] OTHER -> w

\* handle_event for Event::Key: any key press clears the error first
handle_event(w, key, raw, t1, t2, io_ok) ==
    handle_key([w EXCEPT !.error = None], key, raw, t1, t2, io_ok)

\* ============================================================ tools.rs
\* lines[from_idx..to_idx] mapped to "<number>: <line>" (0-based, end exclusive)
NumberedLines(lines, from_idx, to_idx) ==
    JoinLines([i \in 1..(to_idx - from_idx) |->
                  NumStr(from_idx + i) \o ": " \o lines[from_idx + i]])

\* tools::tool_read_file
tool_read_file(args) ==
    LET path == IF IsSome(args.path) THEN Unwrap(args.path) ELSE << >>
        file == FileLines(path)
    IN
    IF path = << >> THEN Returned(Lit("Error: path is required"))
    ELSE IF ~IsSome(file) THEN Returned(Lit("Error reading file: not found"))
    ELSE
      LET lines == Unwrap(file)
          n == Len(lines)
          too_far == Returned(Lit("Error: start_line exceeds file length"))
      IN
      IF IsSome(args.start_line) /\ IsSome(args.end_line)
      THEN LET start == Unwrap(args.start_line)
               end == Unwrap(args.end_line)
               start_idx == IF start >= 1 THEN start - 1 ELSE 0
               end_idx == IF end < n THEN end ELSE n
           IN IF start_idx >= n THEN too_far
              ELSE IF start_idx > end_idx THEN Panicked
              ELSE Returned(NumberedLines(lines, start_idx, end_idx))
      ELSE IF IsSome(args.start_line)
      THEN LET start == Unwrap(args.start_line)
               start_idx == IF start >= 1 THEN start - 1 ELSE 0
           IN IF start_idx >= n THEN too_far
              ELSE Returned(NumberedLines(lines, start_idx, n))
      ELSE IF IsSome(args.end_line)
      THEN LET end == Unwrap(args.end_line)
               end_idx == IF end < n THEN end ELSE n
           IN Returned(NumberedLines(lines, 0, end_idx))
      ELSE Returned(JoinLines(lines))

\* str::matches(old).count(): after a match the search goes on behind it
RECURSIVE MatchesCount(_, _)
MatchesCount(content, old) ==
    IF Len(content) < Len(old) THEN 0
    ELSE IF IsPrefix(old, content)
         THEN 1 + MatchesCount(SubSeq(content, Len(old) + 1, Len(content)), old)
         ELSE MatchesCount(Tail(content), old)

\* str::replacen(old, new, 1)
RECURSIVE ReplaceFirst(_, _, _)
ReplaceFirst(content, old, new) ==
    IF Len(content) < Len(old) THEN content
    ELSE IF IsPrefix(old, content)
         THEN new \o SubSeq(content, Len(old) + 1, Len(content))
         ELSE << content[1] >> \o ReplaceFirst(Tail(content), old, new)

\* str::lines of a text without line breaks
LinesOf(s) == IF s = << >> THEN << >> ELSE << s >>

\* The lines of text, each with the marker in front and a line break behind
RECURSIVE Marked(_, _)
Marked(marker, lines) ==
    IF lines = << >> THEN << >>
    ELSE << marker >> \o lines[1] \o << "\n" >> \o Marked(marker, Tail(lines))

\* tools::tool_edit_file on a file with the given content: the string
\* returned and the content of the file afterwards
tool_edit_file(path, old, new, content) ==
    IF path = << >>
    THEN [output |-> Lit("Error: path is required"), content |-> content]
    ELSE IF old = << >>
    THEN [output |-> Lit("Error: old text is required"), content |-> content]
    ELSE
      LET count == MatchesCount(content, old)
      IN IF count = 0
         THEN [output |-> << "Error: text not found in " >> \o path,
               content |-> content]
         ELSE IF count > 1
         THEN [output |-> << "Error: text appears ", NumStr(count), " times in " >>
                          \o path \o << " - be more specific" >>,
               content |-> content]
         ELSE [output |-> << "Edited " >> \o path \o << "\n" >>
                          \o Marked("-", LinesOf(old))
                          \o Marked("+", LinesOf(new)),
               content |-> ReplaceFirst(content, old, new)]

\* The names tools::execute_tool_by_name dispatches on
ToolNames ==
    {"read_file", "write_file", "edit_file", "list_dir", "search_files", "grep",
     "bash", "view_projects", "update_projects"}

\* What the subprocess of a bash call prints
ToolOutputs == {Lit("ok")}

\* The exit statuses the subprocess of command can end with
ExitCodes(command) == IF command = cmd_go_build THEN {0} ELSE {0, 1}

\* tools::execute_bash_with_paths; out, code: what the subprocess did
execute_bash_with_paths(args, allowed_paths, out, code) ==
    LET command == IF IsSome(args.command) THEN Unwrap(args.command) ELSE << >>
    IN IF command = << >> THEN Returned(Lit("Error: command is required"))
       ELSE Returned(Lit("$ ") \o command \o Lit("\n") \o out
                       \o (IF code # 0 THEN Lit("\n[exit code: 1]") ELSE << >>))

\* tools::execute_tool_by_name, for the tools other than bash
execute_tool_by_name(name, args) ==
    IF name = "read_file" THEN tool_read_file(args)
    ELSE IF name \in ToolNames THEN Returned(Lit("ok"))
    ELSE Returned(Lit("Unknown tool: ") \o Lit(name))

\* The outcomes of the worker closure of process_pending_tools for call
ToolOutcomes(call, allowed_paths) ==
    IF call.name = "bash"
    THEN LET command == IF IsSome(call.args.command)
                        THEN Unwrap(call.args.command) ELSE << >>
         IN {execute_bash_with_paths(call.args, allowed_paths, out, code) :
               out \in ToolOutputs, code \in ExitCodes(command)}
    ELSE {execute_tool_by_name(call.name, call.args)}

\* ============================================================ ui.rs
\* The character U+0060, written ' in the texts of this module
Backquote == "'"

\* Span::styled(content, style): base_style, base_style.bold() or the
\* yellow of code
Span(content, style) == [content |-> content, style |-> style]

\* if !current.is_empty() { spans.push(Span::styled(take(current), style)) }
Flushed(spans, current, style) ==
    IF current = << >> THEN spans ELSE Append(spans, Span(current, style))

\* The loop of render_inline_styles over the characters left, and what
\* follows it
RECURSIVE InlineLoop(_, _, _, _, _)
InlineLoop(chars, spans, current, in_code, in_bold) ==
    IF chars = << >>
    THEN LET all == Flushed(spans, current,
                            IF in_code THEN "code"
                            ELSE IF in_bold THEN "bold" ELSE "base")
         IN IF all = << >> THEN << Span(<< >>, "base") >> ELSE all
    ELSE IF chars[1] = Backquote /\ ~in_bold
    THEN InlineLoop(Tail(chars),
                    Flushed(spans, current, IF in_code THEN "code" ELSE "base"),
                    << >>, ~in_code, in_bold)
    ELSE IF chars[1] = "*" /\ Len(chars) > 1 /\ chars[2] = "*" /\ ~in_code
    THEN InlineLoop(Tail(Tail(chars)),
                    Flushed(spans, current, IF in_bold THEN "bold" ELSE "base"),
                    << >>, in_code, ~in_bold)
    ELSE InlineLoop(Tail(chars), spans, Append(current, chars[1]),
                    in_code, in_bold)

\* Mutant of render_inline_styles: the markers are removed and every span
\* gets the base style.
render_inline_styles_unstyled(line) ==
    LET spans == InlineLoop(line, << >>, << >>, FALSE, FALSE)
    IN [i \in 1..Len(spans) |-> Span(spans[i].content, "base")]

\* render_inline_styles
render_inline_styles(line) == InlineLoop(line, << >>, << >>, FALSE, FALSE)


\* =========================================================== the remote model
\* The parsed arguments object of a call: the keys the controller and the
\* executors modelled here look at
Args(path, command, start_line, end_line) ==
    [path |-> path, command |-> command,
     start_line |-> start_line, end_line |-> end_line]

read_file_a == [name |-> "read_file", args |-> Args(Some(<< "a" >>), None, None, None)]
bash_go == [name |-> "bash", args |-> Args(None, Some(cmd_go_build), None, None)]

\* The tool_calls arrays a response may carry (the empty array included)
Batches ==
    { << >>, << read_file_a, bash_go >>, << bash_go, read_file_a >> }

Usage == << 3, 1 >>

ApiCalls(ws) == Cardinality({i \in 1..Len(ws) : ws[i].kind = "api"})

\* The results api::chat can return to the worker; first_id numbers the calls
Responses(first_id, may_call_tools) ==
    {[ok |-> FALSE, err |-> "500"]}
    \cup {[ok |-> TRUE,
           value |-> [content |-> Some(Lit("done")), tool_calls |-> None,
                      usage |-> Some(Usage)]]}
    \cup (IF may_call_tools
          THEN {[ok |-> TRUE,
                 value |-> [content |-> None,
                            tool_calls |-> Some([i \in 1..Len(ks) |->
                                                   [id |-> first_id + i - 1,
                                                    name |-> ks[i].name,
                                                    args |-> ks[i].args]]),
                            usage |-> None]]
                : ks \in Batches}
          ELSE {})

IssuedCalls(response) ==
    IF response.ok /\ IsSome(response.value.tool_calls)
    THEN Len(Unwrap(response.value.tool_calls)) ELSE 0


\* =================================================================== actions
\* The readings chrono::Utc::now() can return after the reading `from`.  The
\* runs of Spec take place within one second of the clock; Ctrl-C, Ctrl-D and
\* /quit, after which run_app handles no further event, are not pressed in them.
Clock(from) == {from}

\* App::new with no session to restore, in a freshly configured environment
App_new ==
    /\ messages = << >>
    /\ api_messages = << WireSystem(SystemPrompt) >>
    /\ state = Idle
    /\ error = None
    /\ token_usage = None
    /\ permission_modal = None
    /\ temp_allowed_paths = << >>
    /\ pending_response = None
    /\ pending_tool_calls = << >>
    /\ pending_tool_execution = None
    /\ session = Session_new(0)
    /\ cancel_flag = FALSE
    /\ should_quit = FALSE
    /\ workers = << >>
    /\ global_file = << >>
    /\ project_file = << >>
    /\ disk = << >>
    /\ now = 0
    /\ next_call_id = 1
    /\ config = Config_default
    /\ provider = Config_default.providers[name_gemini]
    /\ api_key = Unwrap(env_var("HAL_API_KEY_GEMINI"))
    /\ config_file = Config_default
    /\ aborted = {}
    /\ commands_entered = 0
    /\ editor = Editor_new
    /\ environ = Environ_unset

Init ==
    /\ App_new
    /\ fn_args = << >>
    /\ fn_result = None

\* run_app: a key that needs no further input is read and handled
KeyPress ==
    /\ ~should_quit
    /\ \E key \in Keys \ {"Enter", "Esc", "CtrlC"} :
          Becomes(handle_event(World, key, << >>, now, now, TRUE))

\* run_app: Esc is read and handled (on a modal it denies, which does no I/O)
KeyEsc ==
    /\ ~should_quit
    /\ Becomes(handle_event(World, "Esc", << >>, now, now, TRUE))

\* run_app: Enter is read and handled while a permission modal is shown
KeyEnterModal ==
    /\ ~should_quit
    /\ IsSome(permission_modal)
    /\ \E io_ok \in BOOLEAN :
          Becomes(handle_event(World, "Enter", << >>, now, now, io_ok))

\* run_app: Enter is read and handled with no modal shown
KeyEnter ==
    /\ ~should_quit
    /\ ~IsSome(permission_modal)
    /\ \E raw \in Inputs : \E t1 \in Clock(now) : \E t2 \in Clock(t1) :
          LET w == handle_event(World, "Enter", raw, t1, t2, TRUE)
          IN /\ ApiCalls(w.workers) <= MaxApiCalls
             /\ Becomes(w)

\* run_app: app.poll_api_response() while not Idle
PollApiResponse ==
    /\ ~should_quit
    /\ state # Idle
    /\ \E t \in Clock(now) : Becomes(poll_api_response(World, t))

\* run_app: app.poll_tool_result() while not Idle
PollToolResult ==
    /\ ~should_quit
    /\ state # Idle
    /\ Becomes(poll_tool_result(World))

\* The model worker: api::chat returns, then cancel_flag is loaded.  The result
\* of a worker whose receiver is gone can reach nobody and is not recorded.
ApiWorkerReply ==
    /\ ~should_quit
    /\ \E id \in 1..Len(workers) :
        /\ workers[id].kind = "api"
        /\ workers[id].st = "running"
        /\ IF cancel_flag
           THEN /\ workers' = [workers EXCEPT ![id].st = "closed"]
                /\ UNCHANGED next_call_id
           ELSE IF ~workers[id].rx
           THEN /\ workers' = [workers EXCEPT ![id].st = "closed"]
                /\ UNCHANGED next_call_id
           ELSE \E r \in Responses(next_call_id, ApiCalls(workers) < MaxApiCalls) :
                /\ workers' = [workers EXCEPT ![id].st = "checked", ![id].val = Some(r)]
                /\ next_call_id' = next_call_id + IssuedCalls(r)
    /\ UNCHANGED << messages, api_messages, state, error, token_usage,
                    permission_modal, temp_allowed_paths, pending_response,
                    pending_tool_calls, pending_tool_execution, session,
                    cancel_flag, should_quit, global_file, project_file, disk,
                    now, aborted,
                    config, provider, api_key, config_file, commands_entered,
                    editor,
                    environ, fn_args, fn_result >>

\* The model worker: tx.send(result); it fails when the receiver was dropped
ApiWorkerSend ==
    /\ ~should_quit
    /\ \E id \in 1..Len(workers) :
        /\ workers[id].kind = "api"
        /\ workers[id].st = "checked"
        /\ workers' = IF workers[id].rx
                      THEN [workers EXCEPT ![id].st = "sent"]
                      ELSE [workers EXCEPT ![id].st = "closed", ![id].val = None]
    /\ UNCHANGED << messages, api_messages, state, error, token_usage,
                    permission_modal, temp_allowed_paths, pending_response,
                    pending_tool_calls, pending_tool_execution, session,
                    cancel_flag, should_quit, global_file, project_file, disk,
                    now, next_call_id, aborted,
                    config, provider, api_key, config_file, commands_entered,
                    editor,
                    environ, fn_args, fn_result >>

\* The tool worker: the executor returns and the result is sent, or the
\* executor panics and the sender is dropped with nothing sent
ToolWorkerSend ==
    /\ ~should_quit
    /\ \E id \in 1..Len(workers) :
        /\ workers[id].kind = "tool"
        /\ workers[id].st = "running"
        /\ LET call == Unwrap(workers[id].call)
           IN \E outcome \in ToolOutcomes(call, workers[id].allowed_paths) :
                LET r == [id |-> call.id, name |-> call.name,
                          path |-> call.args.path, result |-> outcome.result]
                IN workers' = IF workers[id].rx /\ ~outcome.panic
                              THEN [workers EXCEPT ![id].st = "sent",
                                                   ![id].val = Some(r)]
                              ELSE [workers EXCEPT ![id].st = "closed"]
    /\ UNCHANGED << messages, api_messages, state, error, token_usage,
                    permission_modal, temp_allowed_paths, pending_response,
                    pending_tool_calls, pending_tool_execution, session,
                    cancel_flag, should_quit, global_file, project_file, disk,
                    now, next_call_id, aborted,
                    config, provider, api_key, config_file, commands_entered,
                    editor,
                    environ, fn_args, fn_result >>

\* A worker thread panics: its sender is dropped with nothing sent
WorkerPanic ==
    /\ ~should_quit
    /\ \E id \in 1..Len(workers) :
        /\ workers[id].st = "running"
        /\ workers' = [workers EXCEPT ![id].st = "closed"]
    /\ UNCHANGED << messages, api_messages, state, error, token_usage,
                    permission_modal, temp_allowed_paths, pending_response,
                    pending_tool_calls, pending_tool_execution, session,
                    cancel_flag, should_quit, global_file, project_file, disk,
                    now, next_call_id, aborted,
                    config, provider, api_key, config_file, commands_entered,
                    editor,
                    environ, fn_args, fn_result >>

Next ==
    \/ KeyPress
    \/ KeyEsc
    \/ KeyEnterModal
    \/ KeyEnter
    \/ PollApiResponse
    \/ PollToolResult
    \/ ApiWorkerReply
    \/ ApiWorkerSend
    \/ ToolWorkerSend
    \/ WorkerPanic

Spec == Init /\ [][Next]_vars

\* run_app under fair scheduling: a spawned thread runs to its send or to its
\* panic, the loop keeps polling while not Idle (main.rs:277-287), and the user
\* answers a permission modal that is shown with Enter or Esc
ModalAnswered == KeyEnterModal \/ (IsSome(permission_modal) /\ KeyEsc)

\* Becomes(w) is a step that changes the state
Changes(w) == w # World

\* ENABLED <<A>>_vars for PollApiResponse, PollToolResult and ModalAnswered:
\* the handler, applied to the state as it is, changes it
ApiResultReady ==
    /\ ~should_quit
    /\ state # Idle
    /\ \E t \in Clock(now) : Changes(poll_api_response(World, t))

ToolResultReady ==
    /\ ~should_quit
    /\ state # Idle
    /\ Changes(poll_tool_result(World))

ModalShown ==
    /\ ~should_quit
    /\ IsSome(permission_modal)
    /\ \/ \E io_ok \in BOOLEAN :
             Changes(handle_event(World, "Enter", << >>, now, now, io_ok))
       \/ Changes(handle_event(World, "Esc", << >>, now, now, TRUE))

\* Weak fairness of every step but the keys outside a modal. For the three
\* steps of the main thread WF_vars(A) is written out, as
\* []<>~ENABLED <<A>>_vars \/ []<><<A>>_vars
Fairness ==
    /\ WF_vars(ApiWorkerReply)
    /\ WF_vars(ApiWorkerSend)
    /\ WF_vars(ToolWorkerSend \/ WorkerPanic)
    /\ ([]<>~ApiResultReady \/ []<><<PollApiResponse>>_vars)
    /\ ([]<>~ToolResultReady \/ []<><<PollToolResult>>_vars)
    /\ ([]<>~ModalShown \/ []<><<ModalAnswered>>_vars)

SpecFair == Spec /\ Fairness

\* App::abort_request called as a method, in whatever state the App is in
AbortRequest ==
    /\ ~should_quit
    /\ Becomes(abort_request(World))

NextApi == Next \/ AbortRequest

SpecApi == Init /\ [][NextApi]_vars

\* ------------------------------------------------- one batch, any allow-lists
\* Calls a response may carry besides those of Batches: a bash command with
\* two PathRequests, one with none that exits non-zero, one with no command,
\* a read_file with end_line before start_line, one of a missing file, and a
\* tool name the dispatcher does not know
bash_cargo == [name |-> "bash", args |-> Args(None, Some(cmd_cargo_build), None, None)]
bash_false == [name |-> "bash", args |-> Args(None, Some(cmd_false), None, None)]
bash_empty == [name |-> "bash", args |-> Args(None, None, None, None)]
read_file_backwards ==
    [name |-> "read_file", args |-> Args(Some(<< "a" >>), None, Some(3), Some(1))]
read_file_missing ==
    [name |-> "read_file", args |-> Args(Some(<< "b" >>), None, None, None)]
unknown_tool == [name |-> "frobnicate", args |-> Args(None, None, None, None)]

FirstBatches ==
    { << bash_cargo, read_file_a >>,
      << read_file_missing, bash_false >>,
      << unknown_tool, bash_empty >>,
      << read_file_backwards, bash_go >> }

\* What the sandbox files can hold when the program starts
GlobalFiles == { << >>, << Home >>, << Home \o << ".cargo", "bin" >> >> }
ProjectFiles == { << >>, << Home \o << ".rustup" >> >> }

\* The first model call of a run has returned a batch of FirstBatches and its
\* result is in the channel; the sandbox files are as some earlier run left them
BatchReturned(batches, env) ==
    /\ messages = << ChatMessage(UserRole, input_hi) >>
    /\ api_messages = << WireSystem(SystemPrompt), WireUser(input_hi) >>
    /\ state = Thinking
    /\ error = None
    /\ token_usage = None
    /\ permission_modal = None
    /\ temp_allowed_paths = << >>
    /\ pending_response = Some(1)
    /\ pending_tool_calls = << >>
    /\ pending_tool_execution = None
    /\ session = Session_new(0)
    /\ cancel_flag = FALSE
    /\ should_quit = FALSE
    /\ \E ks \in batches :
         /\ workers = << [ApiWorker(api_messages) EXCEPT
                            !.st = "sent",
                            !.val = Some([ok |-> TRUE,
                                          value |-> [content |-> None,
                                                     tool_calls |->
                                                        Some([i \in 1..Len(ks) |->
                                                                [id |-> i,
                                                                 name |-> ks[i].name,
                                                                 args |-> ks[i].args]]),
                                                     usage |-> None]])] >>
         /\ next_call_id = Len(ks) + 1
    /\ global_file \in GlobalFiles
    /\ project_file \in ProjectFiles
    /\ disk = << >>
    /\ now = 0
    /\ config = Config_default
    /\ provider = Config_default.providers[name_gemini]
    /\ api_key = Unwrap(env_var("HAL_API_KEY_GEMINI"))
    /\ config_file = Config_default
    /\ aborted = {}
    /\ commands_entered = 0
    /\ editor = Editor_new
    /\ environ = env
    /\ fn_args = << >>
    /\ fn_result = None

InitBatch == BatchReturned(FirstBatches, Environ_unset)

NextBatch ==
    \/ KeyPress
    \/ KeyEsc
    \/ KeyEnterModal
    \/ PollApiResponse
    \/ PollToolResult
    \/ ApiWorkerReply
    \/ ApiWorkerSend
    \/ ToolWorkerSend

SpecBatch == InitBatch /\ [][NextBatch]_vars

\* What GOPATH may hold: nothing, an absolute path, or a path written with a
\* tilde that no shell expanded (export GOPATH="~/go")
GoPaths == { None, Some(<< "/", "opt", "go" >>), Some(<< "~", "go" >>) }

\* Batches that ask bash for go and for cargo
EnvBatches ==
    { << bash_go, read_file_a >>, << bash_go, bash_go >>,
      << bash_cargo, bash_go >> }

\* Such a batch has returned, in an environment that may set GOPATH
InitEnv == \E gopath \in GoPaths :
              BatchReturned(EnvBatches, [Environ_unset EXCEPT !.GOPATH = gopath])

SpecEnv == InitEnv /\ [][NextBatch]_vars

\* ------------------------------------------- sessions, commands and the clock
\* A second of the wall clock passes
Tick ==
    /\ ~should_quit
    /\ now < MaxNow
    /\ now' = now + 1
    /\ UNCHANGED << messages, api_messages, state, error, token_usage,
                    permission_modal, temp_allowed_paths, pending_response,
                    pending_tool_calls, pending_tool_execution, session,
                    cancel_flag, should_quit, workers, global_file,
                    project_file, disk, next_call_id, aborted,
                    config, provider, api_key, config_file, commands_entered,
                    editor,
                    environ, fn_args, fn_result >>

\* run_app: Ctrl-C (or Ctrl-D, the same arm of handle_key) is read and handled
KeyCtrlC ==
    /\ ~should_quit
    /\ Becomes(handle_event(World, "CtrlC", << >>, now, now, TRUE))

\* Command lines the user may have typed when Enter is pressed
InfoCommands ==
    {input_sessions, input_help, input_provider,
     prefix_provider \o name_anthropic, prefix_provider \o name_openai,
     prefix_provider \o << "x" >>, prefix_key \o << "k" >>}
LoadCommands ==
    {prefix_load \o << NumStr(0) >>, prefix_load \o << NumStr(1) >>,
     prefix_load \o << NumStr(9) >>}
Commands == QuitCommands \cup InfoCommands \cup LoadCommands \cup {input_clear}

\* run_app: Enter is read and handled with /load <id> or a quit command typed
KeyEnterSession ==
    /\ ~should_quit
    /\ ~IsSome(permission_modal)
    /\ \E raw \in QuitCommands \cup LoadCommands :
          Becomes(handle_event(World, "Enter", raw, now, now, TRUE))

\* run_app: Enter is read and handled with an informational command typed
KeyEnterCommand ==
    /\ ~should_quit
    /\ ~IsSome(permission_modal)
    /\ commands_entered < MaxCommands
    /\ \E raw \in InfoCommands : \E io_ok \in BOOLEAN :
          Becomes([handle_event(World, "Enter", raw, now, now, io_ok)
                     EXCEPT !.commands_entered = @ + 1])

\* The model worker of a remote model that is given no tools to call:
\* api::chat returns text or an error, then cancel_flag is loaded
ApiWorkerReplyText ==
    /\ ~should_quit
    /\ \E id \in 1..Len(workers) :
        /\ workers[id].kind = "api"
        /\ workers[id].st = "running"
        /\ IF cancel_flag \/ ~workers[id].rx
           THEN workers' = [workers EXCEPT ![id].st = "closed"]
           ELSE \E r \in Responses(next_call_id, FALSE) :
                  workers' = [workers EXCEPT ![id].st = "checked",
                                             ![id].val = Some(r)]
    /\ UNCHANGED << messages, api_messages, state, error, token_usage,
                    permission_modal, temp_allowed_paths, pending_response,
                    pending_tool_calls, pending_tool_execution, session,
                    cancel_flag, should_quit, global_file, project_file, disk,
                    now, next_call_id, aborted,
                    config, provider, api_key, config_file, commands_entered,
                    editor,
                    environ, fn_args, fn_result >>

NextSession ==
    \/ KeyEsc
    \/ KeyEnter
    \/ PollApiResponse
    \/ ApiWorkerReplyText
    \/ ApiWorkerSend
    \/ WorkerPanic
    \/ Tick
    \/ KeyCtrlC
    \/ KeyEnterSession

SpecSession == Init /\ [][NextSession]_vars

NextCommands ==
    \/ KeyEnter
    \/ PollApiResponse
    \/ ApiWorkerReplyText
    \/ ApiWorkerSend
    \/ KeyEnterSession
    \/ KeyEnterCommand

SpecCommands == Init /\ [][NextCommands]_vars

\* ------------------------------------------------- functions checked alone
\* The variables of the App but the session files
app_vars ==
    << messages, api_messages, state, error, token_usage, permission_modal,
       temp_allowed_paths, pending_response, pending_tool_calls,
       pending_tool_execution, session, cancel_flag, should_quit, workers,
       global_file, project_file, now, next_call_id, config, provider,
       api_key, config_file, aborted, commands_entered, editor, environ >>

\* Strings a journal entry may hold: plain text, the characters JSON
\* escapes, text that looks like an escape or like null, the empty string
RoundTripContents ==
    << << "h", "i" >>, << "\\", "n" >>, << "\"" >>, << "\n", "\\" >>, << >>,
       << "null" >> >>

\* Roles a UI message may have
RoundTripRoles ==
    << UserRole, AssistantRole, ToolRole("bash", None),
       ToolRole("read_file", Some(<< "a", "\"" >>)),
       ToolRole("read_file", Some(<< >>)) >>

\* Wire logs a session may hold
RoundTripWire(c) ==
    << << >>,
       << WireSystem(SystemPrompt), WireUser(c), WireAssistant(c) >>,
       << WireSystem(SystemPrompt), WireUser(c),
          WireAssistantCalls(<< [id |-> 1, name |-> read_file_a.name,
                                 args |-> read_file_a.args] >>),
          WireTool(1, c) >> >>

\* A session in memory, about to be saved
InitRoundTrip ==
    /\ App_new
    /\ fn_result = None
    /\ \E created \in 0..MaxNow : \E updated \in created..MaxNow :
       \E n \in 0..2 : \E r1, r2 \in 1..Len(RoundTripRoles) :
       \E c1, c2 \in 1..Len(RoundTripContents) : \E w \in 1..3 :
          /\ n < 2 => (r2 = 1 /\ c2 = 1)
          /\ n < 1 => r1 = 1
          /\ fn_args =
               [id |-> << NumStr(created) >>, created_at |-> created,
                updated_at |-> updated, title |-> RoundTripContents[c2],
                messages |->
                   SubSeq(<< ChatMessage(RoundTripRoles[r1], RoundTripContents[c1]),
                             ChatMessage(RoundTripRoles[r2], RoundTripContents[c2]) >>,
                          1, n),
                api_messages |-> RoundTripWire(RoundTripContents[c1])[w]]

\* Session::save of the session
SessionSave ==
    /\ fn_args.id \notin DOMAIN disk
    /\ disk' = Session_save(disk, fn_args)
    /\ UNCHANGED << app_vars, fn_args, fn_result >>

\* Session::load by the session's id
SessionLoad ==
    /\ fn_result = None
    /\ fn_args.id \in DOMAIN disk
    /\ fn_result' = Some(Session_load(disk, fn_args.id))
    /\ UNCHANGED << app_vars, fn_args, disk >>

NextRoundTrip ==
    \/ SessionSave
    \/ SessionLoad

SpecRoundTrip == InitRoundTrip /\ [][NextRoundTrip]_vars

\* Lines typed with file references: "a" and "ab" exist, "b" does not
TypedLines == UNION {[1..n -> {"@", "a", "b", " "}] : n \in 0..MaxTyped}

\* The App just started, with a line typed
InitTyped ==
    /\ App_new
    /\ fn_args \in TypedLines
    /\ fn_result = None

\* run_app: Enter is read and handled with the typed line in the editor
SubmitTyped ==
    /\ state = Idle
    /\ Becomes([handle_event(World, "Enter", fn_args, now, now, TRUE)
                  EXCEPT !.fn_result = Some(expand_file_refs(fn_args))])

SpecTyped == InitTyped /\ [][SubmitTyped]_vars

\* The files of a walk that finds only those in keep
RECURSIVE WalkOf(_, _)
WalkOf(keep, i) ==
    IF i > Len(load_files) THEN << >>
    ELSE (IF i \in keep THEN << load_files[i] >> ELSE << >>)
         \o WalkOf(keep, i + 1)

\* What the user may have typed after the @
PickerQueries == UNION {[1..n -> {"a", "b", "A", "B"}] : n \in 0..MaxQuery}

\* The picker open on a list of files, with a query typed
InitPicker ==
    /\ App_new
    /\ fn_result = None
    /\ \E keep \in SUBSET (1..Len(load_files)) : \E q \in PickerQueries :
          fn_args = [items |-> WalkOf(keep, 1), query |-> q]

\* update_picker_results: the call of filter_items
FilterItems ==
    /\ fn_result = None
    /\ fn_result' = Some(filter_items(fn_args.items, fn_args.query,
                                       MAX_PICKER_ITEMS))
    /\ UNCHANGED << app_vars, fn_args, disk >>

SpecPicker == InitPicker /\ [][FilterItems]_vars

\* Texts of at most n of the given characters
Texts(chars, n) == UNION {[1..k -> chars] : k \in 0..n}

\* An edit_file call on a file "f" of the working directory
InitEdit ==
    /\ App_new
    /\ fn_result = None
    /\ \E path \in {<< >>, << "f" >>} :
       \E content \in Texts({"a", "b"}, MaxFileChars) :
       \E old \in Texts({"a", "b"}, MaxOldChars) :
       \E new \in {<< >>, << "a" >>, << "c" >>} :
          fn_args = [path |-> path, old |-> old, new |-> new,
                     content |-> content]

\* execute_tool_by_name: the edit_file arm
EditFile ==
    /\ fn_result = None
    /\ fn_result' = Some(tool_edit_file(fn_args.path, fn_args.old, fn_args.new,
                                        fn_args.content))
    /\ UNCHANGED << app_vars, fn_args, disk >>

SpecEdit == InitEdit /\ [][EditFile]_vars

\* Paths given as text
PathTexts == Texts({"/", "a", "."}, MaxPathChars)

\* The lists an allow-list entry may be in, or in none
Stores == {"global", "project", "temp", "none"}

\* A required path and an allow-list entry in one of the lists
InitPaths ==
    /\ App_new
    /\ fn_result = None
    /\ \E req \in PathTexts : \E allowed \in PathTexts : \E store \in Stores :
          fn_args = [req |-> req, allowed |-> allowed, store |-> store]

\* The entry of fn_args in its list
StoreOf(store) ==
    IF fn_args.store = store THEN << Components(fn_args.allowed) >> ELSE << >>

\* get_missing_paths_for_command, for the one required path
MissingPaths ==
    /\ fn_result = None
    /\ fn_result' =
          Some(missing_paths([World EXCEPT !.global_file = StoreOf("global"),
                                           !.project_file = StoreOf("project"),
                                           !.temp_allowed_paths = StoreOf("temp")],
                             << PathRequest(Components(fn_args.req), "") >>))
    /\ UNCHANGED << app_vars, fn_args, disk >>

SpecPaths == InitPaths /\ [][MissingPaths]_vars

\* A number given or left out
OptionOf(set) == {None} \cup {Some(x) : x \in set}

\* A read_file call: the path may be left out or name no file
InitRead ==
    /\ App_new
    /\ fn_result = None
    /\ \E path \in OptionOf({<< "a" >>, << "a", "b" >>, << "e" >>, << "b" >>}) :
       \E start_line, end_line \in OptionOf(0..MaxLine) :
          fn_args = [path |-> path, start_line |-> start_line,
                     end_line |-> end_line]

\* execute_tool_by_name: the read_file arm
ReadFile ==
    /\ fn_result = None
    /\ fn_result' = Some(tool_read_file(fn_args))
    /\ UNCHANGED << app_vars, fn_args, disk >>

SpecRead == InitRead /\ [][ReadFile]_vars

\* Lines typed as a message: a run of x, a run of é, blanks and a run of y,
\* with lengths around the limit of the title
TitleLines ==
    {Rep("x", i) \o Rep("é", j) \o Rep(" ", k) \o Rep("y", l) :
       i \in {0, 1, TitleChars - 2, TitleChars - 1, TitleChars, TitleChars + 1},
       j \in {0, 1, TitleChars \div 2 + 1},
       k \in 0..1, l \in 0..2}

\* The App just started, with a message typed
InitTitle ==
    /\ App_new
    /\ fn_args \in TitleLines
    /\ fn_result = None

\* run_app: Enter is read and handled with the typed message in the editor
SubmitLine ==
    /\ ~should_quit
    /\ state = Idle
    /\ fn_result = None
    /\ LET w == handle_event(World, "Enter", fn_args, now, now, TRUE)
       IN /\ ApiCalls(w.workers) <= MaxApiCalls
          /\ Becomes([w EXCEPT !.fn_result = Some(Trim(fn_args))])

NextTitle ==
    \/ SubmitLine
    \/ KeyEnter
    \/ PollApiResponse
    \/ ApiWorkerReplyText
    \/ ApiWorkerSend

SpecTitle == InitTitle /\ [][NextTitle]_vars

\* Texts the terminal may paste
PasteTexts == {<< "é", "\n" >>, << "\r", "a" >>}

\* run_app: a key of the editor is read and handled
EditorKey ==
    /\ ~should_quit
    /\ ~editor.panicked
    /\ \E key \in EditorKeys \cup {"Up", "Down", "Esc"} :
          /\ key = "Backspace" => Len(editor.input) <= MaxEdited
          /\ key = "Up" => Len(editor.input) <= MaxSaved
          /\ Becomes(handle_event(World, key, editor.input, now, now, TRUE))

\* run_app: a character key is read and handled
TypeChar ==
    /\ ~should_quit
    /\ ~editor.panicked
    /\ Len(editor.input) <= MaxInput
    /\ \E c \in Chars :
          Becomes(handle_event(World, c, editor.input, now, now, TRUE))

\* run_app: Event::Paste is read and handled
Paste ==
    /\ ~should_quit
    /\ ~editor.panicked
    /\ Len(editor.input) <= MaxInput
    /\ \E text \in PasteTexts : Becomes(paste(World, text))

\* run_app: Enter is read and handled with what the editor holds, which
\* is no command
EnterMessage ==
    /\ ~should_quit
    /\ ~editor.panicked
    /\ Len(editor.input) <= MaxSubmitted
    /\ Len(editor.history) < MaxEditorLines
    /\ ~IsSome(slash_command(World, Trim(editor.input), now, now, TRUE))
    /\ Becomes(handle_event(World, "Enter", editor.input, now, now, TRUE))

NextEditor ==
    \/ EditorKey
    \/ TypeChar
    \/ Paste
    \/ EnterMessage

SpecEditor == Init /\ [][NextEditor]_vars

\* Bash commands about as long as a label: letters, then nothing, a
\* two-byte character, or a two-byte character and a letter
LabelCommands ==
    {Rep("a", n) \o tail :
        n \in (LabelMax - 2)..(LabelMax + MaxPastLabel - 1),
        tail \in {<< >>, << "é" >>, << "é", "a" >>}}

\* A tool call of the model: any tool name, known or not, with or without
\* a path and a command
InitLabel ==
    /\ App_new
    /\ fn_result = None
    /\ \E name \in ToolNames \cup {"frobnicate"} :
       \E path \in OptionOf({<< "a" >>}) :
       \E command \in OptionOf(LabelCommands \cup {cmd_go_build}) :
          fn_args = [name |-> name, args |-> Args(path, command, None, None)]

\* process_pending_tools: the call of format_tool_call
FormatToolCall ==
    /\ fn_result = None
    /\ fn_result' = Some(format_tool_call(fn_args.name, fn_args.args))
    /\ UNCHANGED << app_vars, fn_args, disk >>

SpecLabel == InitLabel /\ [][FormatToolCall]_vars

\* A line of an assistant message: letters, asterisks and backticks
InitInline ==
    /\ App_new
    /\ fn_result = None
    /\ fn_args \in Texts({"a", "*", Backquote}, MaxInline)

\* render_markdown_line: the call of render_inline_styles
RenderInline ==
    /\ fn_result = None
    /\ fn_result' = Some(render_inline_styles(fn_args))
    /\ UNCHANGED << app_vars, fn_args, disk >>

SpecInline == InitInline /\ [][RenderInline]_vars

\* run_app: Backspace, Left or Right is read and handled
EditKey ==
    /\ ~should_quit
    /\ ~editor.panicked
    /\ \E key \in {"Backspace", "Left", "Right"} :
          Becomes(handle_event(World, key, editor.input, now, now, TRUE))

\* Typed characters, Backspaces and cursor movements only
NextQuery ==
    \/ TypeChar
    \/ EditKey

SpecQuery == Init /\ [][NextQuery]_vars

\* run_app: Up, Down or Esc is read and handled
HistoryKey ==
    /\ ~should_quit
    /\ \E key \in {"Up", "Down", "Esc"} :
          /\ key = "Up" => Len(editor.input) <= MaxSaved
          /\ Becomes(handle_event(World, key, editor.input, now, now, TRUE))

\* run_app: a letter or a slash is read and handled
TypePlain ==
    /\ ~should_quit
    /\ Len(editor.input) <= MaxInput
    /\ \E c \in {"a", "/"} :
          Becomes(handle_event(World, c, editor.input, now, now, TRUE))

\* run_app: Enter is read and handled with what the editor holds, a
\* message or a command
EnterTyped ==
    /\ ~should_quit
    /\ LET w == handle_event(World, "Enter", editor.input, now, now, TRUE)
           is_command ==
               /\ state = Idle
               /\ editor.picker_mode = "None"
               /\ IsSome(slash_command(World, Trim(editor.input), now, now, TRUE))
       IN /\ ApiCalls(w.workers) <= MaxApiCalls
          /\ Len(w.editor.history) <= MaxHistory
          /\ is_command => commands_entered < MaxCommands
          /\ Becomes([w EXCEPT !.commands_entered =
                                   IF is_command THEN @ + 1 ELSE @])

NextHistory ==
    \/ HistoryKey
    \/ TypePlain
    \/ EnterTyped

SpecHistory == Init /\ [][NextHistory]_vars

\* The started model calls stay within the bound
BoundOK == ApiCalls(workers) <= MaxApiCalls


\* ==================================================================== claims
HandleCount ==
    (IF IsSome(pending_response) THEN 1 ELSE 0)
    + (IF IsSome(pending_tool_execution) THEN 1 ELSE 0)
    + (IF IsSome(permission_modal) THEN 1 ELSE 0)

\* C1 (as claimed): between controller steps, AppState is Idle if and only if no
\* model receiver and no tool receiver is pending, pending_tool_calls is empty
\* and no permission modal is shown.
C1_IdleIffNothingPending ==
    (state = Idle) <=> /\ ~IsSome(pending_response)
                       /\ ~IsSome(pending_tool_execution)
                       /\ pending_tool_calls = << >>
                       /\ ~IsSome(permission_modal)

\* C2: while AppState is not Idle exactly one of the model receiver, the tool
\* receiver and the permission modal is present (so a model call and a tool
\* execution are never outstanding together), and in Idle none of them is.
C2_ExactlyOneHandle ==
    /\ state # Idle => HandleCount = 1
    /\ state = Idle => HandleCount = 0

\* C2 witness: a permission modal is the one handle of a turn that has already
\* run a tool, and a turn has gone back to Idle before.
C2_Witness ==
    /\ state.tag = "ToolCall"
    /\ IsSome(permission_modal)
    /\ \E i \in 1..Len(workers) : workers[i].kind = "tool" /\ workers[i].st = "taken"

\* Every assistant message of log that carries tool_calls is followed at once
\* by exactly one role:tool message per call, in the order of the array.
ToolResultsFollow(log) ==
    \A i \in 1..Len(log) :
        (log[i].role = "assistant" /\ HasToolCalls(log[i])) =>
            LET calls == log[i].tool_calls
                n == Len(calls)
            IN /\ i + n <= Len(log)
               /\ \A k \in 1..n : /\ log[i + k].role = "tool"
                                  /\ log[i + k].tool_call_id = calls[k].id
               /\ (i + n + 1 <= Len(log)) => log[i + n + 1].role # "tool"

\* C3 (as claimed): the wire log handed to each model call, and the wire log
\* whenever the controller is Idle, has every tool-call batch followed by its
\* results, one per call and in order.
C3_ToolResultsFollowBatches ==
    /\ state = Idle => ToolResultsFollow(api_messages)
    /\ \A i \in 1..Len(workers) :
          workers[i].kind = "api" => ToolResultsFollow(workers[i].messages)


\* ------------------------------------------------------------ turn structure
Last(s) == s[Len(s)]

\* Index of the last element of s that satisfies P, or 0
LastIndex(s, P(_)) ==
    LET idx == {i \in 1..Len(s) : P(s[i])}
    IN IF idx = {} THEN 0 ELSE CHOOSE i \in idx : \A j \in idx : j <= i

IsWireUser(m) == m.role = "user"
IsWireTool(m) == m.role = "tool"
IsWireCalls(m) == m.role = "assistant" /\ HasToolCalls(m)
IsWireFinal(m) == m.role = "assistant" /\ ~HasToolCalls(m)
IsUiUser(m) == m.role = UserRole
IsUiTool(m) == m.role.type = "tool"

\* The part of a journal that belongs to the turn of the last submission
WireTurn(log) == SubSeq(log, LastIndex(log, IsWireUser), Len(log))
UiTurn(msgs) == SubSeq(msgs, LastIndex(msgs, IsUiUser), Len(msgs))

Count(s, P(_)) == Cardinality({i \in 1..Len(s) : P(s[i])})

\* The tool_call ids the model issued in the wire messages of log
IssuedIds(log) ==
    UNION {{log[i].tool_calls[k].id : k \in 1..Len(log[i].tool_calls)} :
             i \in {j \in 1..Len(log) : IsWireCalls(log[j])}}

\* A step in which the turn completes: the model's answer without tool calls
\* is appended to the wire log and AppState goes back to Idle
TurnCompletes ==
    /\ state # Idle
    /\ state' = Idle
    /\ Len(api_messages') = Len(api_messages) + 1
    /\ IsWireFinal(Last(api_messages'))

\* C4: when a turn completes, every tool_call id issued in it has exactly one
\* role:tool entry in the wire log, and the turn's UI journal holds as many
\* Tool messages as its wire journal holds role:tool entries: the n-th Tool
\* message of the turn shows the content of its n-th role:tool entry.
C4_CompletedTurnAnswersEveryCall ==
    [][TurnCompletes =>
         LET wire == WireTurn(api_messages')
             ui == UiTurn(messages')
         IN /\ \A id \in IssuedIds(wire) :
                  /\ Count(api_messages',
                           LAMBDA m : IsWireTool(m) /\ m.tool_call_id = id) = 1
                  /\ Count(wire, LAMBDA m : IsWireTool(m) /\ m.tool_call_id = id) = 1
            /\ Count(wire, IsWireTool) = Cardinality(IssuedIds(wire))
            /\ Count(ui, IsUiTool) = Count(wire, IsWireTool)
            /\ \A k \in 1..Len(wire) :
                  IsWireTool(wire[k]) =>
                     \E j \in 1..Len(ui) : /\ IsUiTool(ui[j])
                                           /\ ui[j].content = wire[k].content
                                           /\ Count(SubSeq(ui, 1, j), IsUiTool)
                                                = Count(SubSeq(wire, 1, k), IsWireTool)]_vars

\* C4 witness: a completed turn in which one call was executed and one denied.
C4_Witness ==
    /\ state = Idle
    /\ IsWireFinal(Last(api_messages))
    /\ Count(WireTurn(api_messages), IsWireTool) = 2
    /\ \E i \in 1..Len(messages) : messages[i].content = DeniedText(Home \o << "go" >>)

\* --------------------------------------------------------- dispatch order
\* The batch the controller is working through: the last assistant message
\* with tool_calls of the wire log
BatchIndex == LastIndex(api_messages, IsWireCalls)

\* Call k of the current batch is the one in hand: the k - 1 calls before it
\* have their results, in array order, at the end of both journals, and the
\* calls after it (from index rest on) are exactly the queue.
InHand(k, rest) ==
    LET i == BatchIndex
        calls == api_messages[i].tool_calls
    IN /\ Len(api_messages) = i + k - 1
       /\ Len(messages) >= k - 1
       /\ \A j \in 1..(k - 1) :
            /\ IsWireTool(api_messages[i + j])
            /\ api_messages[i + j].tool_call_id = calls[j].id
            /\ IsUiTool(messages[Len(messages) - (k - 1) + j])
            /\ messages[Len(messages) - (k - 1) + j].role.name = calls[j].name
            /\ messages[Len(messages) - (k - 1) + j].content
                 = api_messages[i + j].content
       /\ pending_tool_calls = SubSeq(calls, rest, Len(calls))

\* C5: while a tool is executing, or a permission modal is shown for a call,
\* that call is call k of the current tool_calls array for some k, the results
\* of calls 1..k-1 are the last k-1 entries of the wire journal and of the UI
\* journal, in array order, and the calls after k are still queued in order.
C5_DispatchInArrayOrder ==
    /\ IsSome(pending_tool_execution) =>
         /\ BatchIndex > 0
         /\ LET call == Unwrap(workers[Unwrap(pending_tool_execution)].call)
                calls == api_messages[BatchIndex].tool_calls
            IN \E k \in 1..Len(calls) : calls[k] = call /\ InHand(k, k + 1)
    /\ IsSome(permission_modal) =>
         /\ BatchIndex > 0
         /\ LET calls == api_messages[BatchIndex].tool_calls
            IN \E k \in 1..Len(calls) :
                  /\ calls[k].id = Unwrap(permission_modal).pending_tool_id
                  /\ InHand(k, k)

\* C5 witness: the second call of a batch is executing after the first one was
\* answered by a synthesized permission-denied result.
C5_Witness ==
    /\ IsSome(pending_tool_execution)
    /\ BatchIndex > 0
    /\ Len(api_messages) = BatchIndex + 1
    /\ Unwrap(workers[Unwrap(pending_tool_execution)].call)
         = api_messages[BatchIndex].tool_calls[2]
    /\ Last(api_messages).content = DeniedText(Home \o << "go" >>)

\* ------------------------------------------------------- wire log ordering
\* The message at position i + 1 of log may follow the one at position i:
\*   system  -> user
\*   user    -> user | assistant
\*   assistant without tool_calls -> user
\*   assistant with n tool_calls  -> the result of call 1 (any assistant, when
\*                                   n = 0) | user
\*   result of call k of n        -> the result of call k + 1 (any assistant,
\*                                   when k = n) | user
\* A user message after an unanswered call closes a turn that ended early.
MayFollow(log, i) ==
    LET m == log[i]
        nxt == log[i + 1]
        b == LastIndex(SubSeq(log, 1, i), IsWireCalls)
        k == i - b
        n == IF b = 0 THEN 0 ELSE Len(log[b].tool_calls)
    IN CASE m.role = "system" -> IsWireUser(nxt)
         [] m.role = "user" -> IsWireUser(nxt) \/ nxt.role = "assistant"
         [] IsWireFinal(m) -> IsWireUser(nxt)
         [] OTHER ->
              \/ IsWireUser(nxt)
              \/ /\ b > 0
                 /\ k <= n
                 /\ IF k = n THEN nxt.role = "assistant"
                    ELSE IsWireTool(nxt)
                         /\ nxt.tool_call_id = log[b].tool_calls[k + 1].id

WireOrdered(log) ==
    /\ log # << >> /\ log[1].role = "system"
    /\ \A i \in 1..(Len(log) - 1) : MayFollow(log, i)

\* Every batch of the turn is followed by all its results and an assistant
\* message, and the turn ends with the answer without tool calls
TurnAnswered(wire) ==
    /\ wire # << >> /\ IsWireUser(wire[1]) /\ IsWireFinal(Last(wire))
    /\ \A i \in 2..Len(wire) : ~IsWireUser(wire[i])
    /\ ToolResultsFollow(wire)

ModelReplyTaken(id) ==
    /\ pending_response = Some(id)
    /\ workers[id].st = "sent"
    /\ workers'[id].st = "taken"

\* C7 (as claimed): a step that takes an Ok response whose tool_calls is
\* absent or an empty list appends one assistant message with the content to
\* the UI journal and one to the wire journal, records the usage reported,
\* saves the session, goes to Idle and starts no model call.
C7_NoToolCallsEndsTurn ==
    [][\A id \in 1..Len(workers) :
         LET response == Unwrap(workers[id].val)
         IN (/\ ModelReplyTaken(id)
             /\ response.ok
             /\ response.value.tool_calls \in {None, Some(<< >>)}) =>
               LET resp == response.value
                   content == IF IsSome(resp.content) THEN Unwrap(resp.content)
                              ELSE << >>
               IN /\ messages' = Append(messages, ChatMessage(AssistantRole, content))
                  /\ api_messages' = Append(api_messages, WireAssistant(content))
                  /\ IsSome(resp.usage) => token_usage' = resp.usage
                  /\ session'.messages = messages'
                  /\ session'.api_messages = api_messages'
                  /\ disk' = Session_save(disk, session')
                  /\ state' = Idle
                  /\ pending_response' = None
                  /\ Len(workers') = Len(workers)]_vars

\* C8 (as claimed): a step that takes an Err result sets the error, removes
\* from the wire log the last user message (the one the turn began with) and
\* nothing else, and goes to Idle.
C8_FailedCallRemovesUserMessage ==
    [][\A id \in 1..Len(workers) :
         (ModelReplyTaken(id) /\ ~Unwrap(workers[id].val).ok) =>
            LET u == LastIndex(api_messages, IsWireUser)
            IN /\ IsSome(error')
               /\ state' = Idle
               /\ u > 0
               /\ api_messages' = SubSeq(api_messages, 1, u - 1)
                                    \o SubSeq(api_messages, u + 1, Len(api_messages))]_vars

\* ---------------------------------------------------------------- aborting
\* The workers whose receiver the controller holds
HeldReceivers ==
    {pending_response[i] : i \in 1..Len(pending_response)}
      \cup {pending_tool_execution[i] : i \in 1..Len(pending_tool_execution)}

\* What abort_request makes of the App w
AbortEffect(w) ==
    LET a == abort_request(w)
        held == {w.pending_response[i] : i \in 1..Len(w.pending_response)}
                  \cup {w.pending_tool_execution[i] :
                            i \in 1..Len(w.pending_tool_execution)}
    IN IF w.state = Idle THEN a = w
       ELSE /\ a.cancel_flag
            /\ a.pending_response = None
            /\ a.pending_tool_execution = None
            /\ \A id \in held : ~a.workers[id].rx
            /\ a.pending_tool_calls = << >>
            /\ a.state = Idle
            /\ a.messages = Append(w.messages, ChatMessage(AssistantRole, AbortedText))
            /\ a.api_messages = w.api_messages

\* C9: a call of abort_request in a non-Idle state sets cancel_flag, drops the
\* model receiver and the tool receiver, empties pending_tool_calls, sets
\* AppState to Idle and appends exactly one assistant message "*Request
\* aborted*" to the UI journal, leaving the wire log alone; a call in Idle
\* changes nothing.  It holds of the call in every reachable state and of
\* every step that makes the call.
C9_AbortRequestEffect ==
    /\ [] AbortEffect(World)
    /\ [][AbortRequest =>
            IF state = Idle THEN UNCHANGED vars
            ELSE /\ cancel_flag'
                 /\ pending_response' = None
                 /\ pending_tool_execution' = None
                 /\ \A id \in HeldReceivers : ~workers'[id].rx
                 /\ pending_tool_calls' = << >>
                 /\ state' = Idle
                 /\ messages' = Append(messages,
                                       ChatMessage(AssistantRole, AbortedText))
                 /\ api_messages' = api_messages]_vars

\* C9 witness: abort_request has dropped the receiver of a tool worker that
\* was running the first call of a batch of two, and the queue is empty.
C9_Witness ==
    /\ state = Idle
    /\ cancel_flag
    /\ pending_tool_calls = << >>
    /\ messages # << >> /\ Last(messages).content = AbortedText
    /\ BatchIndex > 0 /\ BatchIndex = Len(api_messages)
    /\ \E id \in aborted :
          /\ workers[id].kind = "tool"
          /\ ~workers[id].rx
          /\ Unwrap(workers[id].call) = api_messages[BatchIndex].tool_calls[1]
          /\ Len(api_messages[BatchIndex].tool_calls) = 2

\* C10 (as claimed): in every state whose AppState is Thinking, an Esc key
\* press sets cancel_flag, shows "*Request aborted*" and leaves AppState Idle.
C10_EscInThinkingAborts ==
    [][(state = Thinking /\ KeyEsc) =>
          /\ cancel_flag'
          /\ state' = Idle
          /\ messages' # << >> /\ Last(messages').content = AbortedText]_vars

\* The App after handle_event has handled an Esc key press
EscPressed == handle_event(World, "Esc", << >>, now, now, TRUE)

\* C10 (amended): in every state whose AppState is Thinking and in which no
\* permission modal is shown, an Esc key press sets cancel_flag, shows
\* "*Request aborted*" and leaves AppState Idle; and the result of a model
\* worker whose receiver an abort dropped is never received by the controller.
C10_EscInThinkingWithoutModalAborts ==
    /\ [] ((state = Thinking /\ ~IsSome(permission_modal)) =>
             /\ EscPressed.cancel_flag
             /\ EscPressed.state = Idle
             /\ EscPressed.messages
                  = Append(messages, ChatMessage(AssistantRole, AbortedText))
             /\ EscPressed.pending_response = None)
    /\ [][(state = Thinking /\ ~IsSome(permission_modal) /\ KeyEsc) =>
            /\ cancel_flag'
            /\ state' = Idle
            /\ HeldReceivers # {}
            /\ HeldReceivers \subseteq aborted']_vars
    /\ [] \A id \in aborted :
            /\ ~workers[id].rx
            /\ workers[id].st # "taken"
            /\ pending_response # Some(id)

\* C10 witness: Esc aborted a model call whose reply api::chat had already
\* returned; the worker's send then failed and the reply is gone.
C10_Witness ==
    /\ state = Idle
    /\ messages # << >> /\ Last(messages).content = AbortedText
    /\ \E id \in aborted :
          /\ workers[id].kind = "api"
          /\ workers[id].st = "closed"
          /\ workers[id].val = None

\* ------------------------------------------------- workers outlived by an abort
\* C11: the result of a worker that was outstanding at an abort is never
\* received: its receiver is gone (a result already in the channel is dropped
\* with it), its result is not taken, no receiver slot of the App refers to
\* it, and no step of such a worker
\* changes a journal or AppState - also after a later submission has reset
\* cancel_flag.
C11_AbortedResultsDiscarded ==
    /\ [] \A id \in aborted :
            /\ ~workers[id].rx
            /\ workers[id].st # "taken"
            /\ pending_response # Some(id)
            /\ pending_tool_execution # Some(id)
    /\ [][\A id \in aborted :
            workers'[id] # workers[id] =>
               UNCHANGED << messages, api_messages, state >>]_vars

\* C11 witness: a model worker outlived an abort, a later submission reset
\* cancel_flag and started the next model call, and the old worker then
\* finished with cancel_flag clear: its result went nowhere.
C11_Witness ==
    /\ ~cancel_flag
    /\ state = Thinking
    /\ \E id \in aborted :
          /\ workers[id].kind = "api"
          /\ workers[id].st = "closed"
          /\ \E later \in (id + 1)..Len(workers) :
                workers[later].kind = "api" /\ pending_response = Some(later)

\* ------------------------------------------------------------ bash permission
CommandOf(call) ==
    IF IsSome(call.args.command) THEN Unwrap(call.args.command) ELSE << >>

\* Every PathRequest detected for command is satisfied by an entry of allowed
AllSatisfied(command, allowed) ==
    \A i \in 1..Len(detect_required_paths(command)) :
       \E a \in allowed : PathCovers(detect_required_paths(command)[i].path, a)

\* The union of the global file, the project file and the ephemeral grants
AllowUnion ==
    {global_file[i] : i \in 1..Len(global_file)}
      \cup {project_file[i] : i \in 1..Len(project_file)}
      \cup {temp_allowed_paths[i] : i \in 1..Len(temp_allowed_paths)}

\* The requests of command that no entry of AllowUnion satisfies, in order
Unsatisfied(command) ==
    SelectSeq(detect_required_paths(command),
              LAMBDA req : ~ \E a \in AllowUnion : PathCovers(req.path, a))

\* C12: a worker runs a bash call only with every PathRequest of its command
\* satisfied by the allow-lists it was dispatched with, which are the union of
\* the two files and the ephemeral grants; a modal is shown only for the bash
\* call at the head of the queue, names its first unsatisfied request, and
\* that call has no worker; and draining a queue whose head is a bash call
\* with an unsatisfied request opens the modal for the first such request and
\* leaves the queue and the workers alone, while any other head (a satisfied
\* bash call, or another tool) is dispatched without a modal.
C12_BashDispatchedOnlyWhenAllowed ==
    /\ \A id \in 1..Len(workers) :
          (workers[id].kind = "tool" /\ Unwrap(workers[id].call).name = "bash") =>
             /\ AllSatisfied(CommandOf(Unwrap(workers[id].call)),
                             workers[id].allowed_paths)
             /\ workers[id].allowed_paths \subseteq AllowUnion
             /\ workers[id].st = "running" => workers[id].allowed_paths = AllowUnion
    /\ IsSome(permission_modal) =>
          /\ pending_tool_calls # << >>
          /\ ~IsSome(pending_tool_execution)
          /\ LET head == pending_tool_calls[1]
                 missing == Unsatisfied(CommandOf(head))
             IN /\ head.name = "bash"
                /\ head.id = Unwrap(permission_modal).pending_tool_id
                /\ missing # << >>
                /\ Unwrap(permission_modal).path = missing[1].path
                /\ \A id \in 1..Len(workers) :
                      workers[id].kind = "tool" =>
                         Unwrap(workers[id].call).id # head.id
    /\ (pending_tool_calls # << >> /\ ~IsSome(pending_tool_execution)) =>
          LET head == pending_tool_calls[1]
              missing == Unsatisfied(CommandOf(head))
              drained == process_pending_tools(World)
          IN IF head.name = "bash" /\ missing # << >>
             THEN /\ IsSome(drained.permission_modal)
                  /\ Unwrap(drained.permission_modal).path = missing[1].path
                  /\ Unwrap(drained.permission_modal).pending_tool_id = head.id
                  /\ drained.pending_tool_calls = pending_tool_calls
                  /\ drained.workers = workers
                  /\ drained.pending_tool_execution = None
             ELSE /\ drained.permission_modal = permission_modal
                  /\ drained.pending_tool_calls = Tail(pending_tool_calls)
                  /\ drained.pending_tool_execution = Some(Len(workers) + 1)
                  /\ Unwrap(drained.workers[Len(workers) + 1].call) = head
                  /\ drained.workers[Len(workers) + 1].allowed_paths = AllowUnion

\* C12 witness: cargo build is running; of its two requests one is satisfied
\* by an entry of the global file below it, the other by an ephemeral grant.
C12_Witness ==
    /\ IsSome(pending_tool_execution)
    /\ LET wk == workers[Unwrap(pending_tool_execution)]
       IN /\ CommandOf(Unwrap(wk.call)) = cmd_cargo_build
          /\ wk.st = "running"
    /\ global_file = << Home \o << ".cargo", "bin" >> >>
    /\ project_file = << >>
    /\ temp_allowed_paths = << Home \o << ".rustup" >> >>

\* ----------------------------------------------------------- denying a call
\* The App after Deny was selected on the modal shown and Enter pressed
DenySelected ==
    modal_select([World EXCEPT !.permission_modal[1].selected = DenyIndex], TRUE)

\* The tool_call ids answered on the wire by a synthesized denial
DeniedIds ==
    {api_messages[i].tool_call_id :
       i \in {j \in 1..Len(api_messages) :
                /\ IsWireTool(api_messages[j])
                /\ IsPrefix(Lit("Permission denied: access to "),
                            api_messages[j].content)}}

\* C13: with a modal shown, selecting Deny (or pressing Esc, which selects it)
\* appends "Permission denied: access to <path> was not granted" as a UI Tool
\* message and as a role:tool wire message with the modal's tool_call_id,
\* removes the head call and takes up the next queued call (modal or worker)
\* or, if none remains, goes to Thinking with a new model call whose payload
\* ends with that result; no worker ever runs a denied call.
C13_DenyAnswersAndDropsCall ==
    /\ [] (IsSome(permission_modal) =>
             LET modal == Unwrap(permission_modal)
                 result == DeniedText(modal.path)
                 rest == Tail(pending_tool_calls)
                 d == DenySelected
             IN /\ modal_cancel(World, TRUE) = d
                /\ d.messages
                     = Append(messages, ChatMessage(ToolRole("bash", None), result))
                /\ d.api_messages
                     = Append(api_messages, WireTool(modal.pending_tool_id, result))
                /\ pending_tool_calls[1].id = modal.pending_tool_id
                /\ Len(d.workers) = Len(workers) + 1 \/ IsSome(d.permission_modal)
                /\ IF rest = << >>
                   THEN /\ d.state = Thinking
                        /\ d.pending_tool_calls = << >>
                        /\ d.permission_modal = None
                        /\ d.pending_response = Some(Len(workers) + 1)
                        /\ d.workers[Len(workers) + 1].kind = "api"
                        /\ d.workers[Len(workers) + 1].messages = d.api_messages
                   ELSE IF IsSome(d.permission_modal)
                   THEN /\ d.pending_tool_calls = rest
                        /\ Unwrap(d.permission_modal).pending_tool_id = rest[1].id
                        /\ d.workers = workers
                   ELSE /\ d.pending_tool_calls = Tail(rest)
                        /\ d.pending_tool_execution = Some(Len(workers) + 1)
                        /\ Unwrap(d.workers[Len(workers) + 1].call) = rest[1])
    /\ [] \A id \in 1..Len(workers) :
            workers[id].kind = "tool" => Unwrap(workers[id].call).id \notin DeniedIds
    /\ [][(IsSome(permission_modal) /\ KeyEsc) =>
            /\ Len(messages') = Len(messages) + 1
            /\ Last(messages').content = DeniedText(Unwrap(permission_modal).path)
            /\ api_messages'
                 = Append(api_messages,
                          WireTool(Unwrap(permission_modal).pending_tool_id,
                                   DeniedText(Unwrap(permission_modal).path)))]_vars

\* C13 witness: the last call of a batch was denied and the follow-up model
\* call is under way with the denial as the last message of its payload.
C13_Witness ==
    /\ state = Thinking
    /\ IsSome(pending_response)
    /\ LET payload == workers[Unwrap(pending_response)].messages
       IN /\ IsWireTool(Last(payload))
          /\ Last(payload).content = DeniedText(Home \o << "go" >>)
          /\ Last(payload).tool_call_id \in DeniedIds
    /\ IsUiTool(Last(messages))
    /\ Last(messages).content = DeniedText(Home \o << "go" >>)

\* ---------------------------------------------------------- allowing a path
\* The App after option n of the modal shown was selected and Enter pressed
Selected(n, io_ok) ==
    modal_select([World EXCEPT !.permission_modal[1].selected = n], io_ok)

\* file with path recorded in it (Vec::contains, then push)
Recorded(file, path) ==
    IF \E i \in 1..Len(file) : file[i] = path THEN file ELSE Append(file, path)

\* The head call is retried: a modal for it again, or a worker running it
HeadRetried(r) ==
    LET head == pending_tool_calls[1]
    IN \/ /\ IsSome(r.permission_modal)
          /\ Unwrap(r.permission_modal).pending_tool_id = head.id
          /\ r.pending_tool_calls = pending_tool_calls
          /\ r.workers = workers
       \/ /\ r.permission_modal = None
          /\ r.pending_tool_calls = Tail(pending_tool_calls)
          /\ r.pending_tool_execution = Some(Len(workers) + 1)
          /\ Unwrap(r.workers[Len(workers) + 1].call) = head

\* C14: with a modal shown, Allow for project records the path in the project
\* file only, Allow globally in the global file only (neither when the write
\* fails, which sets the error), Allow once in the ephemeral list only; none
\* of them touches a journal, and the head call is retried: it gets a modal
\* again or is dispatched.  The same holds of every Enter step on an Allow
\* option.
C14_AllowChangesOnlyItsStore ==
    /\ [] (IsSome(permission_modal) =>
             LET path == expand_path(Unwrap(permission_modal).path)
             IN \A io_ok \in BOOLEAN :
                  /\ \A n \in 0..2 :
                        /\ Selected(n, io_ok).messages = messages
                        /\ Selected(n, io_ok).api_messages = api_messages
                        /\ HeadRetried(Selected(n, io_ok))
                  /\ Selected(0, io_ok).project_file
                       = (IF io_ok THEN Recorded(project_file, path) ELSE project_file)
                  /\ Selected(0, io_ok).global_file = global_file
                  /\ Selected(0, io_ok).temp_allowed_paths = temp_allowed_paths
                  /\ Selected(1, io_ok).global_file
                       = (IF io_ok THEN Recorded(global_file, path) ELSE global_file)
                  /\ Selected(1, io_ok).project_file = project_file
                  /\ Selected(1, io_ok).temp_allowed_paths = temp_allowed_paths
                  /\ Selected(2, io_ok).temp_allowed_paths
                       = Append(temp_allowed_paths, Unwrap(permission_modal).path)
                  /\ Selected(2, io_ok).global_file = global_file
                  /\ Selected(2, io_ok).project_file = project_file
                  /\ ~io_ok => /\ IsSome(Selected(0, io_ok).error)
                               /\ IsSome(Selected(1, io_ok).error))
    /\ [][(/\ IsSome(permission_modal)
           /\ Unwrap(permission_modal).selected \in 0..2
           /\ KeyEnterModal) =>
            /\ messages' = messages
            /\ api_messages' = api_messages
            /\ Cardinality({x \in {1, 2, 3} :
                              << global_file, project_file, temp_allowed_paths >>[x]
                                # << global_file', project_file',
                                     temp_allowed_paths' >>[x]}) <= 1]_vars

\* C14 witness: cargo build runs after its first request was allowed for the
\* project and its second globally; the journals are as they were on receipt.
C14_Witness ==
    /\ IsSome(pending_tool_execution)
    /\ CommandOf(Unwrap(workers[Unwrap(pending_tool_execution)].call))
         = cmd_cargo_build
    /\ project_file = << Home \o << ".cargo" >> >>
    /\ global_file = << Home \o << ".rustup" >> >>
    /\ temp_allowed_paths = << >>
    /\ Len(messages) = 1
    /\ Len(api_messages) = 3

\* ------------------------------------------------- every call gets a result
\* The receiver of tool worker id is released by this step
ToolReceiverReleased(id) ==
    /\ pending_tool_execution = Some(id)
    /\ pending_tool_execution' # Some(id)

\* C15: a step that releases the receiver of a dispatched tool call which was
\* not aborted leaves a role:tool message for that call in the wire log, and
\* does not end the turn with an error.
C15_DispatchedCallAnswered ==
    [][\A id \in 1..Len(workers) :
         (ToolReceiverReleased(id) /\ id \notin aborted') =>
            /\ \E i \in 1..Len(api_messages') :
                  /\ IsWireTool(api_messages'[i])
                  /\ api_messages'[i].tool_call_id = Unwrap(workers[id].call).id
            /\ error' = None]_vars

\* ------------------------------------------------------------ worker crashes
\* The App has reported a crash and let go of worker id
CrashReported(r, id) ==
    /\ IsSome(r.error)
    /\ r.state = Idle
    /\ r.pending_response = None
    /\ r.pending_tool_execution = None
    /\ ~r.workers[id].rx
    /\ r.messages = messages
    /\ r.api_messages = api_messages

\* Worker id is awaited and its channel has disconnected with nothing in it
Disconnected(id) ==
    /\ workers[id].st = "closed"
    /\ id \notin aborted
    /\ ~cancel_flag
    /\ state # Idle

\* C16: when the channel of the awaited worker, model or tool, has
\* disconnected without a result and there was no cancellation, the poll sets
\* the footer error, drops the receiver and leaves AppState Idle, without a
\* change to either journal; every poll step taken in such a state does so.
C16_CrashEndsTurnWithError ==
    /\ [] \A id \in 1..Len(workers) :
            /\ (pending_response = Some(id) /\ Disconnected(id)) =>
                  /\ CrashReported(poll_api_response(World, now), id)
                  /\ poll_api_response(World, now).error
                       = Some("API thread crashed")
            /\ (pending_tool_execution = Some(id) /\ Disconnected(id)) =>
                  /\ CrashReported(poll_tool_result(World), id)
                  /\ poll_tool_result(World).error
                       = Some("Tool execution thread crashed")
    /\ [][\A id \in 1..Len(workers) :
            /\ (pending_response = Some(id) /\ Disconnected(id) /\ PollApiResponse)
                  => (IsSome(error') /\ state' = Idle /\ pending_response' = None
                      /\ ~workers'[id].rx)
            /\ (pending_tool_execution = Some(id) /\ Disconnected(id)
                /\ PollToolResult)
                  => (IsSome(error') /\ state' = Idle
                      /\ pending_tool_execution' = None /\ ~workers'[id].rx)]_vars

\* C16 witness: a tool worker crashed in one turn and the model worker in the
\* next; the controller is Idle with the error of the latter in the footer.
C16_Witness ==
    /\ state = Idle
    /\ error = Some("API thread crashed")
    /\ pending_response = None
    /\ pending_tool_execution = None
    /\ \E i, j \in 1..Len(workers) :
          /\ workers[i].kind = "tool" /\ workers[j].kind = "api"
          /\ workers[i].st = "closed" /\ workers[j].st = "closed"
          /\ ~workers[i].rx /\ ~workers[j].rx
          /\ aborted = {}

\* -------------------------------------------------------------------- /clear
\* Enter is handled with /clear in the editor
ClearSubmitted ==
    /\ ~should_quit
    /\ ~IsSome(permission_modal)
    /\ state = Idle
    /\ Becomes(handle_event(World, "Enter", input_clear, now, now, TRUE))

\* C17: a step that handles /clear leaves the UI list empty, the wire log with
\* the system prompt alone, no token usage, and a session whose id differs
\* from the id of the session before.
C17_ClearStartsFreshSession ==
    [][ClearSubmitted =>
         /\ messages' = << >>
         /\ api_messages' = << WireSystem(SystemPrompt) >>
         /\ token_usage' = None
         /\ session'.id # session.id]_vars

\* ------------------------------------------------------------ slash commands
\* The App after Enter is handled with raw in the editor
Entered(raw, io_ok) == handle_event(World, "Enter", raw, now, now, io_ok)

\* Enter reaches submit_input: nothing is in progress and no modal is shown
AcceptsInput == state = Idle /\ ~IsSome(permission_modal) /\ ~should_quit

\* The session that the file of id holds
Stored(files, id) == Unwrap(from_str(files[id]))

\* The id a /load command names
LoadedId(raw) == Trim(StripPrefix(prefix_load, raw))

\* The wire log a successful /load of session s leaves
WireAfterLoad(s) ==
    << api_messages[1] >> \o SubSeq(s.api_messages, 2, Len(s.api_messages))

\* C18 as stated: every slash command is handled without a model call, with
\* AppState Idle afterwards and the wire log unchanged.
C18_CommandsLeaveWireLog ==
    AcceptsInput =>
       \A raw \in Commands : \A io_ok \in BOOLEAN :
          /\ Entered(raw, io_ok).workers = workers
          /\ Entered(raw, io_ok).pending_response = None
          /\ Entered(raw, io_ok).state = Idle
          /\ Entered(raw, io_ok).api_messages = api_messages

\* C18 amended: every slash command is handled without a model call and with
\* AppState Idle afterwards; the wire log is unchanged except by /clear, which
\* cuts it down to the system prompt, and by /load of a saved session, which
\* leaves the system prompt followed by the saved log after its first entry.
\* Every step that handles a command starts no worker and stays Idle.
C18_CommandsStartNoModelCall ==
    /\ [] (AcceptsInput =>
             \A raw \in Commands : \A io_ok \in BOOLEAN :
                /\ Entered(raw, io_ok).workers = workers
                /\ Entered(raw, io_ok).pending_response = None
                /\ Entered(raw, io_ok).pending_tool_execution = None
                /\ Entered(raw, io_ok).state = Idle
                /\ Entered(raw, io_ok).api_messages =
                     (IF raw = input_clear THEN << api_messages[1] >>
                      ELSE IF raw \in LoadCommands /\ LoadedId(raw) \in DOMAIN disk
                      THEN WireAfterLoad(Stored(disk, LoadedId(raw)))
                      ELSE api_messages))
    /\ [][(AcceptsInput /\ (KeyEnterCommand \/ KeyEnterSession)) =>
            (workers' = workers /\ state' = Idle)]_vars

\* C18 witness: /provider anthropic was handled after a completed turn: the
\* provider is switched, the UI list has the reply, the wire log is the turn's.
C18_Witness ==
    /\ state = Idle
    /\ commands_entered = 1
    /\ config.default_provider = name_anthropic
    /\ Len(api_messages) = 3
    /\ Len(messages) = 3
    /\ DOMAIN disk # {}

\* -------------------------------------------------- the head of the wire log
\* C19: the wire log is never empty and its first entry is the system prompt,
\* whatever was submitted, aborted, cleared or loaded before.
C19_WireLogStartsWithSystemPrompt ==
    /\ api_messages # << >>
    /\ api_messages[1] = WireSystem(SystemPrompt)

\* C19 witness: a turn in the first second, /clear and a turn in the next
\* second, then /load of the first session: its turn is back in the wire log.
C19_Witness ==
    /\ DOMAIN disk = {<< NumStr(0) >>, << NumStr(1) >>}
    /\ session.id = << NumStr(0) >>
    /\ now = 1
    /\ state = Idle
    /\ Len(api_messages) = 3
    /\ api_messages[1] = WireSystem(SystemPrompt)

\* ------------------------------------------------------- saving the session
\* The file of session s holds the journals ui and wire
OnDisk(files, s, ui, wire) ==
    /\ s.id \in DOMAIN files
    /\ Stored(files, s.id).messages = ui
    /\ Stored(files, s.id).api_messages = wire

\* C20: a step that takes the controller to Idle, a step that handles /clear
\* and a step that makes the application quit each leave the session file
\* holding the conversation (for /clear: the conversation that is cleared).
C20_SessionSavedOnIdleClearQuit ==
    [][/\ (state # Idle /\ state' = Idle /\ messages' # << >>)
            => OnDisk(disk', session', messages', api_messages')
       /\ (ClearSubmitted /\ messages # << >>)
            => OnDisk(disk', session, messages, api_messages)
       /\ (~should_quit /\ should_quit' /\ messages # << >>)
            => OnDisk(disk', session', messages', api_messages')]_vars

\* --------------------------------------------------------------------- /load
\* Enter is handled with the /load command raw in the editor
LoadSubmitted(raw) ==
    /\ AcceptsInput
    /\ Becomes(Entered(raw, TRUE))

\* C21: a step that handles /load <id> for a session that exists saves the
\* current session and then shows the saved session <id>: the UI list is the
\* saved one, the wire log is the system prompt followed by the saved log
\* after its first entry, token usage is cleared.  When the session does not
\* exist the error is set and the UI list, the wire log and the session stay.
C21_LoadShowsSavedSession ==
    [][\A raw \in LoadCommands :
         LoadSubmitted(raw) =>
            IF LoadedId(raw) \in DOMAIN disk
            THEN /\ disk' = save_session(World, now).disk
                 /\ messages' = Stored(disk', LoadedId(raw)).messages
                 /\ api_messages' =
                      << api_messages[1] >>
                         \o Tail(Stored(disk', LoadedId(raw)).api_messages)
                 /\ token_usage' = None
            ELSE /\ IsSome(error')
                 /\ messages' = messages
                 /\ api_messages' = api_messages
                 /\ session' = session]_vars

FileTokens(input) ==
    {Tail(SplitWhitespace(input)[i]) :
       i \in {k \in 1..Len(SplitWhitespace(input)) :
                /\ SplitWhitespace(input)[k][1] = "@"
                /\ Len(SplitWhitespace(input)[k]) > 1
                /\ IsSome(FileLines(Tail(SplitWhitespace(input)[k])))}}

\* The number of <file> blocks for path in text
BlockCount(text, path) ==
    Cardinality({i \in 1..Len(text) :
                   /\ text[i] = "\n\n<file path=\""
                   /\ i + Len(path) + 1 <= Len(text)
                   /\ SubSeq(text, i + 1, i + Len(path)) = path
                   /\ text[i + Len(path) + 1] = "\">\n"})

\* The text before the first <file> block
BeforeBlocks(text) ==
    LET starts == {i \in 1..Len(text) : text[i] = "\n\n<file path=\""}
    IN IF starts = {} THEN text
       ELSE SubSeq(text, 1, (CHOOSE i \in starts : \A j \in starts : i <= j) - 1)

\* C23: after a line is submitted, for every token @P of the line whose P is
\* an existing file, the wire user content has exactly one <file> block for P,
\* the words of the wire text before the blocks are those of the line with
\* each such token shown as 'P', and the UI list has exactly one read_file
\* stub for P.
C23_OneBlockPerFileToken ==
    (state = Thinking /\ IsSome(fn_result)) =>
       LET text == api_messages[2].content
           typed == SplitWhitespace(fn_args)
           shown == SplitWhitespace(BeforeBlocks(text))
       IN /\ Len(shown) = Len(typed)
          /\ \A i \in 1..Len(typed) :
                Tail(typed[i]) \in FileTokens(fn_args) /\ typed[i][1] = "@"
                   => shown[i] = << "'" >> \o Tail(typed[i]) \o << "'" >>
          /\ \A path \in FileTokens(fn_args) :
                /\ BlockCount(text, path) = 1
                /\ Cardinality({k \in 1..Len(messages) :
                                  messages[k].role
                                    = ToolRole("read_file", Some(path))}) = 1

\* --------------------------------------------------------------------- picker
\* The characters of q appear in s in order
IsSubsequence(q, s) ==
    \E f \in [1..Len(q) -> 1..Len(s)] :
       /\ \A k \in 1..Len(q) : s[f[k]] = q[k]
       /\ \A k1, k2 \in 1..Len(q) : k1 < k2 => f[k1] < f[k2]

\* The item matches the query when both are lower-cased
MatchesQuery(item, q) == IsSubsequence(to_lowercase(q), to_lowercase(item))

\* C24 as stated: filter_items returns an item of items if and only if the
\* characters of the query, lower-cased, appear in the item, lower-cased, in
\* order; every item occurs in the result as often as in items when it does.
C24_FilterReturnsEveryMatch ==
    IsSome(fn_result) =>
       \A k \in 1..Len(fn_args.items) :
          LET item == fn_args.items[k]
              times(seq) == Cardinality({j \in 1..Len(seq) : seq[j] = item})
          IN times(Unwrap(fn_result))
               = IF MatchesQuery(item, fn_args.query)
                 THEN times(fn_args.items) ELSE 0

\* C24, amended: filter_items returns, in their order in items, the first
\* MAX_PICKER_ITEMS of the items in which the characters of the query,
\* lower-cased, appear lower-cased in order.
C24_FilterReturnsFirstMatches ==
    IsSome(fn_result) =>
       Unwrap(fn_result)
         = Take(SelectSeq(fn_args.items,
                          LAMBDA item : MatchesQuery(item, fn_args.query)),
                MAX_PICKER_ITEMS)

\* A query with an upper-case letter has been applied: some items were
\* dropped because they do not match and some because of the limit.
C24_Witness ==
    /\ IsSome(fn_result)
    /\ \E k \in 1..Len(fn_args.query) : fn_args.query[k] = "A"
    /\ \E k \in 1..Len(fn_args.items) :
          ~MatchesQuery(fn_args.items[k], fn_args.query)
    /\ Len(SelectSeq(fn_args.items,
                     LAMBDA item : MatchesQuery(item, fn_args.query)))
         > MAX_PICKER_ITEMS
    /\ Len(Unwrap(fn_result)) = MAX_PICKER_ITEMS

\* ------------------------------------------------------------------ edit_file
\* The positions of content at which old occurs
Occurrences(content, old) ==
    {i \in 1..(Len(content) - Len(old) + 1) :
       SubSeq(content, i, i + Len(old) - 1) = old}

\* content with the characters of old at position i replaced by new
ReplacedAt(content, old, new, i) ==
    SubSeq(content, 1, i - 1) \o new \o SubSeq(content, i + Len(old), Len(content))

\* C25: edit_file of a named file with a non-empty old text succeeds only when
\* the old text occurs at exactly one position of the file, and then replaces
\* exactly that occurrence; with no occurrence or more than one it returns an
\* error, for more than one naming the number of positions, and leaves the
\* file unchanged.
C25_EditOnlyUniqueOccurrence ==
    (IsSome(fn_result) /\ fn_args.path # << >> /\ fn_args.old # << >>) =>
       LET at == Occurrences(fn_args.content, fn_args.old)
           done == Unwrap(fn_result)
       IN IF Cardinality(at) = 1
          THEN /\ IsPrefix(Lit("Edited "), done.output)
               /\ done.content
                    = ReplacedAt(fn_args.content, fn_args.old, fn_args.new,
                                 CHOOSE i \in at : TRUE)
          ELSE /\ done.content = fn_args.content
               /\ IF at = {}
                  THEN done.output = << "Error: text not found in " >> \o fn_args.path
                  ELSE IsPrefix(<< "Error: text appears ",
                                   NumStr(Cardinality(at)), " times in " >>,
                                done.output)

\* ----------------------------------------------------------------- allow-list
\* The maximal runs of s without a separator, as pairs of positions, without
\* the runs "." that do not begin the path
NameRuns(s) ==
    {p \in (1..Len(s)) \X (1..Len(s)) :
       /\ p[1] <= p[2]
       /\ \A i \in p[1]..p[2] : s[i] # "/"
       /\ p[1] > 1 => s[p[1] - 1] = "/"
       /\ p[2] < Len(s) => s[p[2] + 1] = "/"
       /\ SubSeq(s, p[1], p[2]) = << "." >> => p[1] = 1}

\* The names of the path s, in order
NamesOf(s) ==
    [k \in 1..Cardinality(NameRuns(s)) |->
       LET p == CHOOSE p \in NameRuns(s) :
                   Cardinality({q \in NameRuns(s) : q[1] < p[1]}) = k - 1
       IN SubSeq(s, p[1], p[2])]

Rooted(s) == s # << >> /\ s[1] = "/"

\* r is a path-component prefix of a
ComponentPrefix(r, a) ==
    /\ IsPrefix(NamesOf(r), NamesOf(a))
    /\ Rooted(r) = Rooted(a) \/ (~Rooted(r) /\ NamesOf(r) = << >>)

\* C26: a required path is treated as satisfied if and only if some entry of
\* the merged allow-list (global file, project file, ephemeral grants) has it
\* as a path-component prefix or is a path-component prefix of it.
C26_SatisfiedIffComponentPrefix ==
    IsSome(fn_result) =>
       ((Unwrap(fn_result) = << >>)
          <=> /\ fn_args.store # "none"
              /\ \/ ComponentPrefix(fn_args.req, fn_args.allowed)
                 \/ ComponentPrefix(fn_args.allowed, fn_args.req))

\* A request was found satisfied by an ephemeral grant below it, although
\* neither text begins with the other.
C26_Witness ==
    /\ fn_result = Some(<< >>)
    /\ fn_args.store = "temp"
    /\ Len(NamesOf(fn_args.req)) < Len(NamesOf(fn_args.allowed))
    /\ ~IsPrefix(fn_args.req, fn_args.allowed)
    /\ ~IsPrefix(fn_args.allowed, fn_args.req)

\* ------------------------------------------------------------------ read_file
\* C27: read_file of an existing file of L lines with start s and end e
\* always returns a string: an error when s > L, and otherwise the lines
\* max(s, 1) to min(e, L), both included, each behind its number and ": ".
C27_ReadReturnsClampedRange ==
    (/\ IsSome(fn_result)
     /\ IsSome(fn_args.path) /\ IsSome(FileLines(Unwrap(fn_args.path)))
     /\ IsSome(fn_args.start_line) /\ IsSome(fn_args.end_line)) =>
       LET lines == Unwrap(FileLines(Unwrap(fn_args.path)))
           s == Unwrap(fn_args.start_line)
           e == Unwrap(fn_args.end_line)
           first == IF s > 1 THEN s ELSE 1
           last == IF e < Len(lines) THEN e ELSE Len(lines)
           done == Unwrap(fn_result)
       IN /\ ~done.panic
          /\ IF s > Len(lines)
             THEN IsPrefix(Lit("Error: start_line exceeds file length"),
                           done.result)
             ELSE done.result
                    = JoinLines([k \in 1..(last - first + 1) |->
                                   NumStr(first + k - 1) \o ": "
                                     \o lines[first + k - 1]])

\* ---------------------------------------------------------------------- title
\* The first TitleChars characters of content, with an ellipsis if and only
\* if content has more characters
FirstChars(content) ==
    Take(content, TitleChars)
      \o (IF Len(content) > TitleChars THEN Lit("...") ELSE << >>)

\* C28: once the session has been saved with a user message in it, its title
\* is the first 50 characters of the first user message, with an ellipsis
\* appended if and only if the message has more than 50 characters.
C28_TitleIsFirstFiftyChars ==
    IsSome(FirstUser(session.messages)) =>
       session.title = FirstChars(Unwrap(FirstUser(session.messages)).content)

\* --------------------------------------------------------------------- editor
\* C29: after any sequence of editor operations on input that may hold
\* multi-byte characters, no operation has panicked and input_cursor is at
\* most the length of input in bytes and lies on a character boundary.
C29_CursorOnCharBoundary ==
    /\ ~editor.panicked
    /\ editor.input_cursor <= ByteLen(editor.input)
    /\ IsCharBoundary(editor.input, editor.input_cursor)

\* The cursor stands behind a multi-byte character, in the middle of the
\* input, with a line in the history.
C29_Witness ==
    /\ editor.input_cursor > 1
    /\ editor.input_cursor < ByteLen(editor.input)
    /\ editor.input[CharsBefore(editor.input, editor.input_cursor)] = "é"
    /\ editor.history # << >>

\* -------------------------------------------------------------------- history
\* history_up, k times
RECURSIVE Ups(_, _)
Ups(w, k) == IF k = 0 THEN w ELSE Ups(history_up(w), k - 1)

\* history_down, k times
RECURSIVE Downs(_, _)
Downs(w, k) == IF k = 0 THEN w ELSE Downs(history_down(w), k - 1)

\* C30: after any sequence of submissions, slash commands and presses of Up
\* and Down, history_pos is between 0 and the length of the history; and with
\* no picker open, Up pressed k times from the live position and then Down
\* pressed k times leaves the input text that was being edited.
C30_HistoryBrowsingRestoresInput ==
    /\ editor.history_pos \in 0..Len(editor.history)
    /\ (editor.picker_mode = "None"
          /\ editor.history_pos = Len(editor.history)) =>
         \A k \in 1..MaxPresses :
            /\ Downs(Ups(World, k), k).editor.input = editor.input
            /\ Downs(Ups(World, k), k).editor.history_pos = editor.history_pos

\* The user browses a history of two lines after a command was entered, and
\* the line that was being edited is kept for the way back.
C30_Witness ==
    /\ Len(editor.history) = 2
    /\ editor.history_pos = 0
    /\ editor.saved_input # << >>
    /\ editor.input = editor.history[1]
    /\ commands_entered > 0

\* --------------------------------------------------------------------- picker
\* A picker is open and the editor has not panicked
PickerOpen == editor.picker_mode # "None" /\ ~editor.panicked

\* String::pop: the text without its last character
Pop(s) == IF s = << >> THEN << >> ELSE SubSeq(s, 1, Len(s) - 1)

\* The number of characters before the cursor
CursorChars == CharsBefore(editor.input, editor.input_cursor)

\* C31 as stated: while a picker is open, a Backspace closes the picker if
\* and only if the character it deletes is the trigger character of the
\* picker; any other Backspace removes the last character of the picker query
\* and keeps the picker open; and every typed character is appended to the
\* query.
C31_PickerKeysEditQuery ==
    PickerOpen =>
      LET d == delete_char(World).editor
      IN /\ d.picker_mode = "None"
              <=> (CursorChars > 0
                     /\ editor.input[CursorChars] = Trigger(editor.picker_mode))
         /\ d.picker_mode # "None" =>
              /\ d.picker_mode = editor.picker_mode
              /\ d.picker_query = Pop(editor.picker_query)
         /\ \A c \in Chars :
              /\ insert_char(World, c).editor.picker_mode = editor.picker_mode
              /\ insert_char(World, c).editor.picker_query
                   = Append(editor.picker_query, c)

\* C31, amended: while a picker is open, a Backspace closes the picker if
\* and only if the character it deletes is the trigger character of the
\* picker; a Backspace that deletes another character removes the last
\* character of the picker query and keeps the picker open; a Backspace at the
\* start of the input changes nothing. A typed character that is the trigger
\* of the open picker is ignored, an @ typed in the Commands picker opens the
\* Files picker, a / typed at the start of the input opens the Commands
\* picker, and every other typed character is appended to the query.
C31_PickerKeysFollowTrigger ==
    PickerOpen =>
      LET d == delete_char(World).editor
          removed == editor.input[CursorChars]
      IN /\ d.picker_mode = "None"
              <=> (CursorChars > 0 /\ removed = Trigger(editor.picker_mode))
         /\ (CursorChars > 0 /\ removed # Trigger(editor.picker_mode)) =>
              /\ d.picker_mode = editor.picker_mode
              /\ d.picker_query = Pop(editor.picker_query)
         /\ CursorChars = 0 => d = editor
         /\ \A c \in Chars :
              LET i == insert_char(World, c).editor
              IN IF c = Trigger(editor.picker_mode) THEN i = editor
                 ELSE IF c = "@"
                 THEN i.picker_mode = "Files" /\ i.picker_query = << >>
                 ELSE IF c = "/" /\ editor.input_cursor = 0
                 THEN i.picker_mode = "Commands" /\ i.picker_query = << >>
                 ELSE /\ i.picker_mode = editor.picker_mode
                      /\ i.picker_query = Append(editor.picker_query, c)

\* A picker is open with a query that was typed, and the cursor stands
\* behind a character of the query.
C31_Witness ==
    /\ PickerOpen
    /\ editor.picker_query # << >>
    /\ CursorChars > 1
    /\ editor.input[CursorChars] # Trigger(editor.picker_mode)

\* C32: accepting an item in the Files picker replaces the input text from
\* the picker's @ up to the cursor with @ and the selected item, leaves the
\* text before the @ and the text after the cursor unchanged, and places the
\* cursor right after the inserted selection.
C32_AcceptReplacesAtToCursor ==
    (PickerOpen /\ editor.picker_mode = "Files"
       /\ editor.picker_selected < Len(editor.picker_results)) =>
      LET s == select_picker_item(World).editor
          item == editor.picker_results[editor.picker_selected + 1]
          at == RFind(SubSeq(editor.input, 1, CursorChars), "@")
          before == SubSeq(editor.input, 1, at - 1)
          after == SubSeq(editor.input, CursorChars + 1, Len(editor.input))
      IN at > 0 =>
           /\ s.input = before \o << "@" >> \o item \o after
           /\ s.input_cursor = ByteLen(before) + 1 + ByteLen(item)
           /\ s.picker_mode = "None"

TriggerAt ==
    RFind(SubSeq(editor.input, 1, CursorChars), Trigger(editor.picker_mode))

\* C38: while a picker is open, picker_query equals the input text between
\* the trigger character and the cursor; when no picker is open, picker_query
\* and picker_results are empty and picker_selected is 0.
C38_QueryIsTextBeforeCursor ==
    ~editor.panicked =>
      IF editor.picker_mode # "None"
      THEN TriggerAt > 0 =>
             editor.picker_query
               = SubSeq(editor.input, TriggerAt + 1, CursorChars)
      ELSE /\ editor.picker_query = << >>
           /\ editor.picker_results = << >>
           /\ editor.picker_selected = 0

\* ------------------------------------------------------------- inline styles
\* The characters of a line that are no markers, each with the style the
\* markers before it put in force: a backtick outside bold switches code on
\* or off, two asterisks outside code switch bold on or off.
RECURSIVE StyledChars(_, _)
StyledChars(chars, style) ==
    IF chars = << >> THEN << >>
    ELSE IF chars[1] = Backquote /\ style # "bold"
    THEN StyledChars(Tail(chars), IF style = "code" THEN "base" ELSE "code")
    ELSE IF style # "code" /\ Len(chars) > 1 /\ SubSeq(chars, 1, 2) = << "*", "*" >>
    THEN StyledChars(Tail(Tail(chars)), IF style = "bold" THEN "base" ELSE "bold")
    ELSE << [char |-> chars[1], style |-> style] >>
           \o StyledChars(Tail(chars), style)

\* The characters of a list of spans, each with the style of its span
RECURSIVE SpanChars(_)
SpanChars(spans) ==
    IF spans = << >> THEN << >>
    ELSE [i \in 1..Len(spans[1].content) |->
            [char |-> spans[1].content[i], style |-> spans[1].style]]
           \o SpanChars(Tail(spans))

\* C40: render_inline_styles splits a line into spans so that the text
\* between two ** markers is bold and the text between two backticks is
\* code-coloured, the markers are not emitted, ** inside code and a backtick
\* inside bold are literal text, an unclosed marker styles the rest of the
\* line, the span contents together are the line without its markers, and
\* the result is never empty.
C40_SpansStyleTheLine ==
    IsSome(fn_result) =>
      /\ SpanChars(Unwrap(fn_result)) = StyledChars(fn_args, "base")
      /\ Unwrap(fn_result) # << >>

\* A line was rendered in which ** stands inside code: the code span holds
\* the two asterisks.
C40_Witness ==
    /\ IsSome(fn_result)
    /\ \E i \in 1..Len(Unwrap(fn_result)) :
          /\ Unwrap(fn_result)[i].style = "code"
          /\ Unwrap(fn_result)[i].content = << "*", "*" >>
    /\ \E i \in 1..Len(Unwrap(fn_result)) : Unwrap(fn_result)[i].style = "base"

\* --------------------------------------------------------------------- labels
\* C39: for every tool name and every argument string, also a bash command
\* with multi-byte characters, the ToolCall label is computed without
\* failing; the label of a bash command longer than 40 bytes is "$ ", a
\* prefix of the command and "...", that of a shorter one "$ " and the whole
\* command.
C39_LabelNeverFails ==
    IsSome(fn_result) =>
      LET label == Unwrap(fn_result)
          command == IF IsSome(fn_args.args.command)
                     THEN Unwrap(fn_args.args.command) ELSE Lit("?")
      IN /\ ~label.panic
         /\ fn_args.name = "bash" =>
              IF ByteLen(command) > LabelMax
              THEN \E k \in 0..Len(command) :
                      label.result
                        = Lit("$ ") \o SubSeq(command, 1, k) \o Lit("...")
              ELSE label.result = Lit("$ ") \o command

\* ---------------------------------------------------------- abort and the log
\* C37: abort_request leaves the wire log unchanged, so the unanswered user
\* message, the assistant tool_calls message and the tool results appended so
\* far are part of the payload of the next model call; it also leaves the
\* sandbox allow-lists unchanged.
C37_AbortKeepsWireLog ==
    LET a == abort_request(World)
        s == submit_input(a, input_hi, now, now, TRUE)
    IN /\ a.api_messages = api_messages
       /\ a.temp_allowed_paths = temp_allowed_paths
       /\ a.global_file = global_file
       /\ a.project_file = project_file
       /\ Last(s.workers).kind = "api"
       /\ Last(s.workers).messages = api_messages \o << WireUser(input_hi) >>

\* A turn was aborted after a tool result had been appended: the wire log
\* still holds the turn's user message, its tool_calls message and the
\* result, and another tool call of the batch was never answered.
C37_Witness ==
    /\ state = Idle
    /\ messages # << >>
    /\ Last(messages) = ChatMessage(AssistantRole, AbortedText)
    /\ IsWireTool(Last(api_messages))
    /\ \E i \in 1..Len(api_messages) :
          /\ IsWireCalls(api_messages[i])
          /\ Len(api_messages[i].tool_calls) > Len(api_messages) - i

\* ------------------------------------------------------------ modal and state
\* C35: whenever a permission modal is shown, AppState is not Idle, no model
\* or tool receiver is pending, pending_tool_calls is non-empty and its head
\* is a bash call whose id is the modal's pending_tool_id, and the selected
\* index is within 0..3; and a step after which a modal is shown, the one
\* that raises it included, leaves AppState as it was.
C35_ModalFreezesState ==
    /\ [](IsSome(permission_modal) =>
            /\ state # Idle
            /\ pending_response = None
            /\ pending_tool_execution = None
            /\ pending_tool_calls # << >>
            /\ pending_tool_calls[1].name = "bash"
            /\ pending_tool_calls[1].id
                 = Unwrap(permission_modal).pending_tool_id
            /\ Unwrap(permission_modal).selected \in 0..DenyIndex)
    /\ [][IsSome(permission_modal') => state' = state]_vars

\* A modal is shown while AppState is ToolCall, raised after the result of
\* an earlier call of the batch, with the selection moved to Deny.
C35_Witness ==
    /\ IsSome(permission_modal)
    /\ state \notin {Idle, Thinking}
    /\ Unwrap(permission_modal).selected = DenyIndex

\* ------------------------------------------------------------- one turn only
\* A user message was put on the wire between w1 and w2: a turn was submitted
Submitted(w1, w2) ==
    /\ Len(w2.api_messages) = Len(w1.api_messages) + 1
    /\ IsWireUser(Last(w2.api_messages))

\* The keys the modal branch of handle_key handles, and Ctrl-C and Ctrl-D
ModalKeys == {"Up", "Down", "Enter", "Esc", "CtrlC"}

\* C36: a turn is submitted only by Enter when AppState is Idle and no modal
\* is shown: while not Idle, Enter with no modal changes nothing, and while a
\* modal is shown every key other than Up, Down, Enter, Esc, Ctrl-C and
\* Ctrl-D changes nothing; no step of the program submits a turn while
\* another is in progress, so at most one turn is in flight.
C36_SubmitOnlyWhenIdle ==
    /\ [](\A key \in Keys \cup EditorKeys \cup Chars :
          \A raw \in Inputs \cup {editor.input} : \A io_ok \in BOOLEAN :
             LET after == handle_key(World, key, raw, now, now, io_ok)
             IN /\ Submitted(World, after) =>
                     /\ key = "Enter"
                     /\ state = Idle
                     /\ ~IsSome(permission_modal)
                /\ (IsSome(permission_modal) /\ key \notin ModalKeys) =>
                     after = World
                /\ (state # Idle /\ ~IsSome(permission_modal) /\ key = "Enter") =>
                     after = World)
    /\ [][Submitted(World, World') =>
            /\ state = Idle
            /\ ~IsSome(permission_modal)
            /\ state' # Idle
            /\ workers' # << >> /\ Last(workers').kind = "api"]_vars

\* A second turn is in flight after the first has ended.
C36_Witness ==
    /\ state = Thinking
    /\ IsSome(pending_response)
    /\ Cardinality({i \in 1..Len(api_messages) : IsWireUser(api_messages[i])}) = 2

\* C34: when Enter on an Allow option of the permission modal records the path
\* (no "Failed to save"), the retried drain raises no modal for that same path.
C34_AllowedPathNotAskedAgain ==
    [][(/\ KeyEnterModal
        /\ Unwrap(permission_modal).selected # DenyIndex
        /\ error' # Some("Failed to save"))
       => (IsSome(permission_modal')
              => Unwrap(permission_modal').path # Unwrap(permission_modal).path)]_vars

====
